---- MODULE Spec2Model ----
(***************************************************************************)
(* Model of the Python -> TypeScript compiler pipeline of src/backend:     *)
(* the global ErrorHandler (error_handler.py), the PLY tokenizer           *)
(* (ply_lexer.py), PLYParser.parse (ply_parser.py),                        *)
(* compile_to_typescript with its textual converters (main.py), the        *)
(* SymbolTable (symbol_table.py), the hand-written pair LexicalAnalyzer    *)
(* (lexer.py) and Parser (parser.py), the TypeScriptGenerator              *)
(* (typescript_generator.py), and two calls of compile_to_typescript       *)
(* sharing the one error_handler.                                          *)
(*                                                                         *)
(* A source text is a sequence of lines; a line is an indentation width    *)
(* and a sequence of lexemes (the maximal pieces the tokenizer's regular   *)
(* expressions match).  Text conventions used by every string predicate    *)
(* below: lexemes of a line are separated by one space, except that        *)
(* "(", ")", ",", ":" follow the previous lexeme directly and the lexeme   *)
(* after "(" follows it directly;  "USTR" is a string literal whose        *)
(* closing quote is missing (it runs to the end of its line), "STR" a      *)
(* closed one, "#c" a comment running to the end of the line.              *)
(***************************************************************************)
EXTENDS Integers, Sequences, FiniteSets, TLC

VARIABLES
    errors,                  \* error_handler.errors (the global singleton)
    function_advice_added,   \* error_handler.function_advice_added
    last_op,                 \* the ErrorHandler method called last, with its argument
    last_output,             \* what format_errors returned, when it was the last call
    source,                  \* the source text being tokenized / compiled
    lexer,                   \* the PLYLexer object fed with it
    tokens,                  \* the tokens its token() has returned so far
    pc,                      \* position inside compile_to_typescript
    has_lexical_errors,      \* compile_to_typescript's local of that name
    parser,                  \* the PLYParser object
    defined_functions,       \* compile_to_typescript's local of that name
    ast,                     \* what PLYParser.parse returned
    result,                  \* the (code, errors) pair compile_to_typescript returns
    symtab,                  \* a SymbolTable object: scope chain, errors, last call
    analyzer,                \* a LexicalAnalyzer object (lexer.py) after tokenize
    rd_parser,               \* a Parser object (parser.py): tokens, current, what was raised
    generator                \* a TypeScriptGenerator object: output, indentation

ehvars == <<errors, function_advice_added, last_op, last_output>>
lexvars == <<source, lexer, tokens>>
compvars == <<pc, has_lexical_errors, parser, defined_functions, ast, result>>
stvars == <<symtab>>
hwvars == <<analyzer, rd_parser, generator>>
vars == <<errors, function_advice_added, last_op, last_output,
          source, lexer, tokens,
          pc, has_lexical_errors, parser, defined_functions, ast, result,
          symtab, analyzer, rd_parser, generator>>

None == "None"

(***************************************************************************)
(* Bounds of the model.                                                    *)
(***************************************************************************)
MaxErrors == 2

----------------------------------------------------------------------------
(***************************************************************************)
(* error_handler.py                                                        *)
(***************************************************************************)

\* ErrorType: the enum's values, in the order of their string values
\* ("LEXICAL" < "SEMANTIC" < "SYNTACTIC" < "TYPE"), which is the order
\* format_errors sorts by.
ErrorType == <<"LEXICAL", "SEMANTIC", "SYNTACTIC", "TYPE">>

TypeRank(t) == CHOOSE i \in DOMAIN ErrorType : ErrorType[i] = t

\* CompilerError(type, line, message, code_line, column, suggestion).
\* A message is <<template, argument>>; code_line is the number of the source
\* line whose text is quoted (0 for the empty string).
CompilerError(type, line, message, code_line, column, suggestion) ==
    [type |-> type, line |-> line, message |-> message,
     code_line |-> code_line, column |-> column, suggestion |-> suggestion]

\* Message templates (accents dropped).
MsgFuncUndef(name) == <<"Funcion '%s' no esta definida", name>>
MsgVarUndef(name)  == <<"Variable '%s' no esta definida", name>>
MsgInvalidChar(c)  == <<"Caracter no valido '%s'", c>>
MsgTypeError(what) == <<"Error de tipo: %s", what>>

\* CompilerError.__eq__: type, line, message and column; code_line and
\* suggestion are not compared.
CompilerError_eq(a, b) ==
    /\ a.type = b.type
    /\ a.line = b.line
    /\ a.message = b.message
    /\ a.column = b.column

\* `error in self.errors`: list membership by ==.
ErrorInList(errs, e) == \E i \in DOMAIN errs : CompilerError_eq(e, errs[i])

\* ErrorHandler.add_error without the membership test.
add_error_AlwaysAppend(errs, e) == Append(errs, e)

\* ErrorHandler.add_error
add_error(errs, e) == IF ErrorInList(errs, e) THEN errs ELSE Append(errs, e)

\* ErrorHandler.has_errors
has_errors(errs) == Len(errs) > 0

\* ErrorHandler.get_errors_by_type
get_errors_by_type(errs, t) == SelectSeq(errs, LAMBDA e : e.type = t)

\* The test of remove_function_errors on one message:
\* "Función '" in message and "' no está definida" in message.
IsFunctionUndefinedMessage(m) == m[1] = MsgFuncUndef("")[1]

\* message.split("'")[1] of such a message
FunctionNameOfMessage(m) == m[2]

\* ErrorHandler.remove_function_errors
remove_function_errors(errs, defined) ==
    SelectSeq(errs, LAMBDA e :
        ~ ( /\ e.type = "SEMANTIC"
            /\ IsFunctionUndefinedMessage(e.message)
            /\ FunctionNameOfMessage(e.message) \in defined ))

\* The TYPE diagnostic check_type_compatibility records, or None.
TypeIncompatibility(left_type, right_type, operation) ==
    IF operation = "+"
    THEN CASE left_type = "int"  /\ right_type = "str"  -> "No se puede sumar un entero con un string"
           [] left_type = "str"  /\ right_type = "int"  -> "No se puede sumar un string con un entero"
           [] left_type = "bool" /\ right_type = "str"  -> "No se puede sumar un booleano con un string"
           [] left_type = "str"  /\ right_type = "bool" -> "No se puede sumar un string con un booleano"
           [] OTHER -> None
    ELSE IF operation \in {"-", "*", "/"} /\ (left_type = "str" \/ right_type = "str")
    THEN CASE operation = "-" -> "No se puede restar un string"
           [] operation = "*" -> "No se puede multiplicar un string"
           [] operation = "/" -> "No se puede dividir un string"
    ELSE None

\* ErrorHandler.check_type_compatibility: the error list afterwards.
check_type_compatibility(errs, left_type, right_type, operation, line, code_line, column) ==
    LET what == TypeIncompatibility(left_type, right_type, operation) IN
    IF what = None THEN errs
    ELSE add_error(errs,
            CompilerError("TYPE", line, MsgTypeError(what), code_line, column,
                IF operation = "+"
                THEN <<"Convierte los tipos manualmente antes de operarlos: str(%s)",
                       IF left_type # "str" THEN left_type ELSE right_type>>
                ELSE <<"Las operaciones aritmeticas '%s' no se pueden realizar con strings", operation>>))

\* The sort key of format_errors: (e.type.value, e.line).
SortKeyLE(a, b) ==
    \/ TypeRank(a.type) < TypeRank(b.type)
    \/ TypeRank(a.type) = TypeRank(b.type) /\ a.line <= b.line

\* A sort that is not stable: e goes before the entries whose key equals its
\* key.
InsertByKey_Unstable(sorted, e) ==
    LET before == {i \in DOMAIN sorted : SortKeyLE(sorted[i], e) /\ ~SortKeyLE(e, sorted[i])}
        n == IF before = {} THEN 0 ELSE CHOOSE i \in before : \A j \in before : j <= i
    IN  SubSeq(sorted, 1, n) \o <<e>> \o SubSeq(sorted, n + 1, Len(sorted))

\* list.sort is stable: e goes after every entry whose key is <= its key.
InsertByKey(sorted, e) ==
    LET before == {i \in DOMAIN sorted : SortKeyLE(sorted[i], e)}
        n == IF before = {} THEN 0 ELSE CHOOSE i \in before : \A j \in before : j <= i
    IN  SubSeq(sorted, 1, n) \o <<e>> \o SubSeq(sorted, n + 1, Len(sorted))

RECURSIVE SortErrors(_)
SortErrors(errs) ==
    IF errs = <<>> THEN <<>>
    ELSE CHOOSE out \in
            { InsertByKey(sorted, errs[Len(errs)]) :
                sorted \in {SortErrors(SubSeq(errs, 1, Len(errs) - 1))} } : TRUE

\* "función" in e.message.lower()
MentionsFuncion(m) == m[1] \in {MsgFuncUndef("")[1],
                                "La sentencia 'return' debe estar dentro de una funcion",
                                "Coma suelta en argumentos de funcion"}

NeedsFunctionAdvice(errs) ==
    \E i \in DOMAIN errs : errs[i].type = "SEMANTIC" /\ MentionsFuncion(errs[i].message)

\* What format_errors prints for one diagnostic: line and message, the code
\* line when it is not empty, under it the caret when column >= 0, and the
\* suggestion when it is not empty.
RenderError(e) ==
    [type |-> e.type, line |-> e.line, message |-> e.message,
     code_line |-> e.code_line,
     caret |-> IF e.code_line # 0 /\ e.column >= 0 THEN e.column ELSE -1,
     suggestion |-> e.suggestion]

\* ErrorHandler.format_errors: the text returned, given the list before the
\* call: "No se encontraron errores." (none_found), or the diagnostics in
\* sorted order, grouped by type, and the tip.
format_errors(errs) ==
    IF errs = <<>> THEN [none_found |-> TRUE, text |-> <<>>, advice |-> FALSE]
    ELSE [none_found |-> FALSE,
          text |-> [i \in DOMAIN errs |-> RenderError(SortErrors(errs)[i])],
          advice |-> NeedsFunctionAdvice(errs)]

----------------------------------------------------------------------------
(***************************************************************************)
(* The ErrorHandler driven through its public methods.                     *)
(***************************************************************************)

LineNumbers == {1, 2}
Columns == {0, 1}
FunctionNames == {"f", "g"}

\* Diagnostics handed to add_error.
AddErrorInputs ==
    { CompilerError(t, l, m, 1, c, s) :
        t \in {"LEXICAL", "SEMANTIC"}, l \in LineNumbers,
        m \in {MsgFuncUndef("f"), MsgInvalidChar("$")},
        c \in Columns, s \in {<<"s1", "">>, <<"s2", "">>} }

\* The ErrorHandler alone: no compilation is in progress.
InitEH ==
    /\ errors = <<>>
    /\ function_advice_added = FALSE
    /\ last_op = [op |-> "init", arg |-> None]
    /\ last_output = None
    /\ source = None
    /\ lexer = None
    /\ tokens = <<>>
    /\ pc = "idle"
    /\ has_lexical_errors = <<>>
    /\ parser = None
    /\ defined_functions = {}
    /\ ast = None
    /\ result = None
    /\ symtab = None
    /\ analyzer = None
    /\ rd_parser = None
    /\ generator = None

Call_add_error ==
    \E e \in AddErrorInputs :
        /\ Len(errors) < MaxErrors \/ ErrorInList(errors, e)
        /\ errors' = add_error(errors, e)
        /\ last_op' = [op |-> "add_error", arg |-> e]
        /\ last_output' = None
        /\ UNCHANGED <<stvars, hwvars, function_advice_added, lexvars, compvars>>

Call_check_type_compatibility ==
    \E l \in {"int", "str"}, r \in {"int", "str"}, o \in {"+", "-"} :
        /\ Len(errors) < MaxErrors
        /\ errors' = check_type_compatibility(errors, l, r, o, 1, 1, 0)
        /\ last_op' = [op |-> "check_type_compatibility", arg |-> None]
        /\ last_output' = None
        /\ UNCHANGED <<stvars, hwvars, function_advice_added, lexvars, compvars>>

Call_remove_function_errors ==
    \E S \in SUBSET FunctionNames :
        /\ errors' = remove_function_errors(errors, S)
        /\ last_op' = [op |-> "remove_function_errors", arg |-> None]
        /\ last_output' = None
        /\ UNCHANGED <<stvars, hwvars, function_advice_added, lexvars, compvars>>

\* format_errors sorts self.errors in place and sets the advice flag.
Call_format_errors ==
    /\ last_output' = format_errors(errors)
    /\ errors' = SortErrors(errors)
    /\ function_advice_added' = (function_advice_added \/ NeedsFunctionAdvice(errors))
    /\ last_op' = [op |-> "format_errors",
                   arg |-> IF last_op.op = "format_errors" THEN "again" ELSE "first"]
    /\ UNCHANGED <<stvars, hwvars, lexvars, compvars>>

Call_clear_errors ==
    /\ errors' = <<>>
    /\ function_advice_added' = FALSE
    /\ last_op' = [op |-> "clear_errors", arg |-> None]
    /\ last_output' = None
    /\ UNCHANGED <<stvars, hwvars, lexvars, compvars>>

NextEH ==
    \/ Call_add_error
    \/ Call_check_type_compatibility
    \/ Call_remove_function_errors
    \/ Call_format_errors
    \/ Call_clear_errors

SpecEH == InitEH /\ [][NextEH]_vars

----------------------------------------------------------------------------
(***************************************************************************)
(* Source texts.                                                           *)
(***************************************************************************)

Ln(indent, lex) == [indent |-> indent, lex |-> lex]

\* PLYLexer.keywords
Keywords == {"def", "if", "else", "elif", "while", "for", "in", "return", "break",
             "continue", "class", "import", "from", "as", "try", "except", "finally",
             "with", "not", "and", "or", "is", "None", "True", "False"}

\* Lexemes matched by t_ID's pattern that are not keywords, and by t_NUMBER's.
Identifiers == {"x", "y", "z", "s", "a", "b", "i", "f", "g", "add", "print", "range", "int"}
NumberLexemes == {"1", "2", "3", "5"}

\* Lexemes that follow the previous one without a space.
Attached == {"(", ")", ",", ":"}

\* The number of characters of a lexeme ("STR" stands for "a", "USTR" for "a ).
Width(x) ==
    IF x \in {"return"} THEN 6
    ELSE IF x \in {"print", "range", "while"} THEN 5
    ELSE IF x \in {"else"} THEN 4
    ELSE IF x \in {"def", "for", "add", "int", "STR"} THEN 3
    ELSE IF x \in {"if", "in", "==", "!=", "<=", ">=", "->", "**", "//", "??", "USTR", "#c"} THEN 2
    ELSE 1

NoSpaceBefore(line, k) == k = 1 \/ line.lex[k] \in Attached \/ line.lex[k - 1] = "("

\* The 0-based column of lexeme k of a line.
RECURSIVE ColOf(_, _)
ColOf(line, k) ==
    IF k = 1 THEN line.indent
    ELSE ColOf(line, k - 1) + Width(line.lex[k - 1]) + (IF NoSpaceBefore(line, k) THEN 0 ELSE 1)

\* len(line)
LineLen(line) ==
    IF line.lex = <<>> THEN line.indent
    ELSE ColOf(line, Len(line.lex)) + Width(line.lex[Len(line.lex)])

NLines(src) == Len(src.lines)

\* The offset in the text of the first character of line li.
RECURSIVE LineStart(_, _)
LineStart(src, li) ==
    IF li = 1 THEN 0 ELSE LineStart(src, li - 1) + LineLen(src.lines[li - 1]) + 1

\* The offset in the text (lexpos) of lexeme k of line li; k = Len + 1 is
\* the end of the line.
LexPos(src, li, k) ==
    LineStart(src, li) +
        (IF k > Len(src.lines[li].lex) THEN LineLen(src.lines[li]) ELSE ColOf(src.lines[li], k))

\* Whether a newline character ends line li.
HasNewlineAfter(src, li) == li < NLines(src) \/ src.final_newline

EmptyText(line) == line.indent = 0 /\ line.lex = <<>>

\* The first index of lexeme x in a line, 0 when absent (str.find).
FindLexeme(line, x) ==
    IF \E i \in DOMAIN line.lex : line.lex[i] = x
    THEN CHOOSE i \in DOMAIN line.lex :
            line.lex[i] = x /\ \A j \in DOMAIN line.lex : line.lex[j] = x => i <= j
    ELSE 0

\* The last index of lexeme x in a line, 0 when absent (str.rfind).
RFindLexeme(line, x) ==
    IF \E i \in DOMAIN line.lex : line.lex[i] = x
    THEN CHOOSE i \in DOMAIN line.lex :
            line.lex[i] = x /\ \A j \in DOMAIN line.lex : line.lex[j] = x => j <= i
    ELSE 0

----------------------------------------------------------------------------
(***************************************************************************)
(* ply_lexer.py                                                            *)
(***************************************************************************)

\* known_funcs of t_ID
known_funcs == {"print", "input", "len", "str", "int", "float", "list", "range"}

max_tokens_history == 10

MsgUnclosedString(lineno, column) ==
    <<"Error lexico en linea %s: String sin cerrar correctamente", <<lineno, column>>>>

\* PLYLexer._find_column on a token at column col of line li: lexpos minus
\* the offset of the newline before it, or minus 0 on the first line.
find_column(li, col) == IF li = 1 THEN col ELSE col + 1

\* lexpos - sum(len(l) + 1 for l in self.source_lines[:lineno - 1])
ColumnFromLineno(src, li, k, lineno) == LexPos(src, li, k) - LineStart(src, lineno)

\* One line of check_unclosed_delimiters.
RECURSIVE check_unclosed_delimiters(_, _, _)
check_unclosed_delimiters(src, i, st) ==
    IF i > NLines(src) THEN st
    ELSE
    LET line == src.lines[i]
        p == FindLexeme(line, "(")
        b == FindLexeme(line, "[")
        openParen == p # 0 /\ ~ \E j \in DOMAIN line.lex : j >= p /\ line.lex[j] = ")"
        openBracket == b # 0 /\ ~ \E j \in DOMAIN line.lex : j >= b /\ line.lex[j] = "]"
        e1 == IF openParen
              THEN add_error(st.errors,
                     CompilerError("SYNTACTIC", i, <<"Parentesis sin cerrar", "">>, i,
                                   ColOf(line, p), <<"Agrega el parentesis de cierre ')'", "">>))
              ELSE st.errors
        e2 == IF openBracket
              THEN add_error(e1,
                     CompilerError("SYNTACTIC", i, <<"Corchete sin cerrar", "">>, i,
                                   ColOf(line, b), <<"Agrega el corchete de cierre ']'", "">>))
              ELSE e1
    IN check_unclosed_delimiters(src, i + 1,
          [errors |-> e2, valid_code |-> st.valid_code /\ ~openParen /\ ~openBracket])

\* invalid_chars of check_invalid_characters, '#' left out as the code does.
invalid_chars == <<"@", "$", "&", "~", "BACKTICK">>

\* The part of a line before its comment.
BeforeComment(line) ==
    LET c == FindLexeme(line, "#c") IN
    IF c = 0 THEN line ELSE [line EXCEPT !.lex = SubSeq(line.lex, 1, c - 1)]

RECURSIVE check_invalid_characters(_, _, _, _)
check_invalid_characters(src, i, c, st) ==
    IF i > NLines(src) THEN st
    ELSE IF c > Len(invalid_chars) THEN check_invalid_characters(src, i + 1, 1, st)
    ELSE
    LET check_line == BeforeComment(src.lines[i])
        at == FindLexeme(check_line, invalid_chars[c])
    IN check_invalid_characters(src, i, c + 1,
          IF at = 0 THEN st
          ELSE [errors |-> add_error(st.errors,
                    CompilerError("LEXICAL", i, MsgInvalidChar(invalid_chars[c]), i,
                                  ColOf(check_line, at),
                                  <<"El caracter '%s' no esta permitido en el lenguaje", invalid_chars[c] >>)),
                valid_code |-> FALSE])

Token(type, value, lineno, lexpos) ==
    [type |-> type, value |-> value, lineno |-> lineno, lexpos |-> lexpos]

\* token() returning None
NoToken == [type |-> None]

\* PLYLexer.__init__: the object and the error list afterwards.  (li, k) is
\* the position of lexpos: lexeme k of line li, k = Len + 1 being the end of
\* the line.  No attribute `errors` is created (only PLYLexer.parse, which
\* nothing calls, assigns one).
PLYLexer_init(src, errs) ==
    LET st1 == check_unclosed_delimiters(src, 1, [errors |-> errs, valid_code |-> TRUE])
        st2 == check_invalid_characters(src, 1, 1, st1)
    IN [lexer |-> [li |-> 1, k |-> 1, lineno |-> 1,
                   valid_code |-> st2.valid_code,
                   last_token |-> NoToken, last_tokens |-> <<>>,
                   sub |-> 0, indent_stack |-> <<0>>, tokens_queue |-> <<>>,
                   paren_stack |-> <<>>, bracket_stack |-> <<>>],
        errors |-> st2.errors]


\* The end of the text has been reached.
AtEnd(src, lx) ==
    \/ lx.li > NLines(src)
    \/ /\ lx.li = NLines(src)
       /\ lx.k > Len(src.lines[lx.li].lex)
       /\ ~src.final_newline

\* The number of newline characters r'\n+' matches at the end of line li.
RECURSIVE NewlineRun(_, _)
NewlineRun(src, li) ==
    IF li + 1 <= NLines(src) /\ EmptyText(src.lines[li + 1]) /\ HasNewlineAfter(src, li + 1)
    THEN 1 + NewlineRun(src, li + 1)
    ELSE 1

\* The while loop of t_NEWLINE: pop while indent < top.
RECURSIVE PopIndents(_, _, _, _)
PopIndents(stack, queue, indent, lineno) ==
    IF indent < stack[Len(stack)]
    THEN PopIndents(SubSeq(stack, 1, Len(stack) - 1),
                    Append(queue, <<"DEDENT", "DEDENT", lineno>>), indent, lineno)
    ELSE [stack |-> stack, queue |-> queue]

\* The token type of a lexeme matched by one of the rules that return it
\* unchanged; the two-character operators are tried before their
\* one-character prefixes.
SimpleTokenType(x) ==
    CASE x = "+" -> "PLUS" [] x = "-" -> "MINUS" [] x = "*" -> "TIMES"
      [] x = "/" -> "DIVIDE" [] x = "%" -> "MOD"
      [] x = "==" -> "EQ" [] x = "!=" -> "NE" [] x = "<" -> "LT" [] x = ">" -> "GT"
      [] x = "<=" -> "LE" [] x = ">=" -> "GE"
      [] x = ":" -> "COLON" [] x = "=" -> "ASSIGN"
      [] x = "->" -> "ARROW" [] x = "," -> "COMMA"
      [] OTHER -> None

\* Two-character pieces of text no pattern of the PLY rules matches as a
\* whole (there is no rule for them among the plain patterns at lines 70-83),
\* and the characters they are made of.
Unruled == {"**", "//", "??"}
Chars(x) ==
    CASE x = "**" -> <<"*", "*">> [] x = "//" -> <<"/", "/">> [] x = "??" -> <<"?", "?">>
      [] x = "==" -> <<"=", "=">> [] x = "!=" -> <<"!", "=">> [] x = "<=" -> <<"<", "=">>
      [] x = ">=" -> <<">", "=">> [] x = "->" -> <<"-", ">">>
      [] OTHER -> <<x>>

\* The piece of text at the lexer's position that a rule can match: the
\* lexeme, or one character of it when no rule matches the whole.
Cur(src, lx) ==
    LET x == src.lines[lx.li].lex[lx.k] IN
    IF x \in Unruled THEN Chars(x)[lx.sub + 1] ELSE x

\* lexpos
Pos(src, lx) == LexPos(src, lx.li, lx.k) + lx.sub

\* The lexeme after the one at the lexer's position, on the same line.
NextOnLine(src, lx) ==
    IF lx.k + 1 <= Len(src.lines[lx.li].lex) THEN src.lines[lx.li].lex[lx.k + 1] ELSE None

\* lexpos moved past the piece of text just matched.
Advance(src, lx) ==
    IF src.lines[lx.li].lex[lx.k] \in Unruled /\ lx.sub = 0
    THEN [lx EXCEPT !.sub = 1]
    ELSE [lx EXCEPT !.k = @ + 1, !.sub = 0]

\* What one rule hands back: the lexer, the error list and the token (NoToken
\* when the rule returns nothing and scanning goes on).
Matched(lx, errs, tok) == [lexer |-> lx, errors |-> errs, tok |-> tok]

\* t_STRING, t_NUMBER and the rules given as plain patterns
t_plain(src, lx, errs, type) ==
    Matched(Advance(src, lx), errs, Token(type, Cur(src, lx), lx.lineno, Pos(src, lx)))

\* PLYLexer._is_similar restricted to the names the texts below call (f, g,
\* add): none is within one character of a name of known_funcs, contains one
\* or is contained in one, or has its length and differs in at most two places.
possible_typos(name) == <<>>

\* PLYLexer.t_ID
t_ID(src, lx, errs) ==
    LET value == Cur(src, lx)
        lexpos == Pos(src, lx)
        next_char == IF NextOnLine(src, lx) = "(" THEN "(" ELSE ""
        flagged == value \notin Keywords /\ next_char = "(" /\ value \notin known_funcs
        suggestion == IF possible_typos(value) # <<>>
                      THEN <<"Quisiste decir '%s'?", possible_typos(value)[1]>>
                      ELSE <<"Asegurate de que la funcion '%s' este definida antes de usarla", value>>
    IN Matched([Advance(src, lx) EXCEPT !.valid_code = @ /\ ~flagged],
               IF flagged
               THEN add_error(errs, CompilerError("SEMANTIC", lx.lineno, MsgFuncUndef(value),
                                 lx.lineno, lexpos - LineStart(src, lx.lineno), suggestion))
               ELSE errs,
               Token(IF value \in Keywords THEN "KEYWORD" ELSE "ID", value, lx.lineno, lexpos))

\* PLYLexer.t_UNCLOSED_STRING.  The pattern takes the string and the newline
\* after it (or stops at the end of the text); lineno is not advanced for that
\* newline; the loop then moves lexpos to the next newline character, which is
\* the one ending the following line.
t_UNCLOSED_STRING(src, lx, errs) ==
    LET column == find_column(lx.li, ColOf(src.lines[lx.li], lx.k))
        e == CompilerError("LEXICAL", lx.lineno, MsgUnclosedString(lx.lineno, column),
                           lx.lineno, column,
                           <<"Revisa los strings y asegurate de que esten correctamente cerrados", "">>)
        after == IF ~HasNewlineAfter(src, lx.li) THEN [li |-> lx.li, k |-> lx.k + 1]
                 ELSE IF lx.li + 1 > NLines(src) THEN [li |-> lx.li + 1, k |-> 1]
                 ELSE [li |-> lx.li + 1, k |-> Len(src.lines[lx.li + 1].lex) + 1]
    IN Matched([lx EXCEPT !.li = after.li, !.k = after.k, !.valid_code = FALSE],
               add_error(errs, e), NoToken)

\* PLYLexer.t_COMMENT
t_COMMENT(src, lx, errs) == Matched(Advance(src, lx), errs, NoToken)

MsgIndent(expected_indent) ==
    <<"Indentacion inconsistente. Se esperaba un nivel de %s espacios.", expected_indent>>

\* PLYLexer.t_NEWLINE, at the end of line lx.li.  INDENT and DEDENT entries
\* go to tokens_queue, which nothing reads.
t_NEWLINE(src, lx, errs) ==
    LET run == NewlineRun(src, lx.li)
        lineno == lx.lineno + run
        li == lx.li + run
        tok == Token("NEWLINE", run, lx.lineno, Pos(src, lx))
        \* lexpos < len(lexdata), and the first character after the blanks
        \* is neither a newline nor '#'
        measured == /\ li <= NLines(src)
                    /\ src.lines[li].lex # <<>>
                    /\ src.lines[li].lex[1] # "#c"
        indent == src.lines[li].indent
        top == lx.indent_stack[Len(lx.indent_stack)]
        popped == PopIndents(lx.indent_stack, lx.tokens_queue, indent, lineno)
        moved == [lx EXCEPT !.li = li, !.k = 1, !.lineno = lineno]
    IN IF ~measured \/ indent = top THEN Matched(moved, errs, tok)
       ELSE IF indent > top
       THEN Matched([moved EXCEPT !.indent_stack = Append(@, indent),
                                  !.tokens_queue = Append(@, <<"INDENT", "INDENT", lineno>>)],
                    errs, tok)
       ELSE Matched([moved EXCEPT !.indent_stack = popped.stack,
                                  !.tokens_queue = popped.queue],
                    IF indent # popped.stack[Len(popped.stack)]
                    THEN add_error(errs,
                           CompilerError("SYNTACTIC", lineno,
                               MsgIndent(popped.stack[Len(popped.stack)]), lineno,
                               find_column(lx.li, LineLen(src.lines[lx.li])),
                               <<"Revisa la indentacion del codigo para que sea consistente", "">>))
                    ELSE errs,
                    tok)

\* PLYLexer.t_error: the character is skipped; it is reported unless the
\* line numbered lineno has a '#' at a column smaller than lexpos.
t_error(src, lx, errs) ==
    LET line == src.lines[lx.lineno]
        lexpos == Pos(src, lx)
        hash == FindLexeme(line, "#c")
        in_comment == hash # 0 /\ lexpos > ColOf(line, hash)
    IN IF in_comment THEN Matched(Advance(src, lx), errs, NoToken)
       ELSE Matched([Advance(src, lx) EXCEPT !.valid_code = FALSE],
                    add_error(errs,
                        CompilerError("LEXICAL", lx.lineno, MsgInvalidChar(Cur(src, lx)), lx.lineno,
                            lexpos - LineStart(src, lx.lineno),
                            <<"Revisa los caracteres permitidos en el lenguaje", "">>)),
                    NoToken)

\* PLYLexer.t_LPAREN and PLYLexer.t_LBRACKET: push (lineno, column).
t_LPAREN(src, lx, errs) ==
    Matched([Advance(src, lx) EXCEPT !.paren_stack =
                 Append(@, <<lx.lineno, find_column(lx.li, ColOf(src.lines[lx.li], lx.k))>>)],
            errs, Token("LPAREN", "(", lx.lineno, Pos(src, lx)))

t_LBRACKET(src, lx, errs) ==
    Matched([Advance(src, lx) EXCEPT !.bracket_stack =
                 Append(@, <<lx.lineno, find_column(lx.li, ColOf(src.lines[lx.li], lx.k))>>)],
            errs, Token("LBRACKET", "[", lx.lineno, Pos(src, lx)))

\* PLYLexer.t_RPAREN and PLYLexer.t_RBRACKET: pop, or report when the stack
\* is empty.
Unmatched(src, lx, errs, message, suggestion) ==
    add_error(errs, CompilerError("SYNTACTIC", lx.lineno, <<message, "">>, lx.lineno,
                        find_column(lx.li, ColOf(src.lines[lx.li], lx.k)), <<suggestion, "">>))

t_RPAREN(src, lx, errs) ==
    LET tok == Token("RPAREN", ")", lx.lineno, Pos(src, lx)) IN
    IF lx.paren_stack = <<>>
    THEN Matched([Advance(src, lx) EXCEPT !.valid_code = FALSE],
                 Unmatched(src, lx, errs, "Parentesis de cierre sin coincidencia",
                           "Agrega el parentesis de apertura '(' correspondiente"),
                 tok)
    ELSE Matched([Advance(src, lx) EXCEPT !.paren_stack = SubSeq(@, 1, Len(@) - 1)], errs, tok)

t_RBRACKET(src, lx, errs) ==
    LET tok == Token("RBRACKET", "]", lx.lineno, Pos(src, lx)) IN
    IF lx.bracket_stack = <<>>
    THEN Matched([Advance(src, lx) EXCEPT !.valid_code = FALSE],
                 Unmatched(src, lx, errs, "Corchete de cierre sin coincidencia",
                           "Agrega el corchete de apertura '[' correspondiente"),
                 tok)
    ELSE Matched([Advance(src, lx) EXCEPT !.bracket_stack = SubSeq(@, 1, Len(@) - 1)], errs, tok)

\* The rule whose pattern matches at lexpos, in the order the rules are
\* tried, applied once.
MatchRule(src, lx, errs) ==
    IF lx.k > Len(src.lines[lx.li].lex) THEN t_NEWLINE(src, lx, errs)
    ELSE LET x == Cur(src, lx) IN
         CASE x = "STR"  -> t_plain(src, lx, errs, "STRING")
           [] x = "USTR" -> t_UNCLOSED_STRING(src, lx, errs)
           [] x \in Keywords \cup Identifiers -> t_ID(src, lx, errs)
           [] x \in NumberLexemes -> t_plain(src, lx, errs, "NUMBER")
           [] x = "#c" -> t_COMMENT(src, lx, errs)
           [] x = "("  -> t_LPAREN(src, lx, errs)
           [] x = ")"  -> t_RPAREN(src, lx, errs)
           [] x = "["  -> t_LBRACKET(src, lx, errs)
           [] x = "]"  -> t_RBRACKET(src, lx, errs)
           [] SimpleTokenType(x) # None -> t_plain(src, lx, errs, SimpleTokenType(x))
           [] OTHER -> t_error(src, lx, errs)

\* lex's token(): rules are applied until one returns a token or the text
\* ends (None).  (Here and below an intermediate result is bound by
\* quantifying over a singleton set: it is then computed once.)
RECURSIVE lex_token(_, _, _)
lex_token(src, lx, errs) ==
    IF AtEnd(src, lx) THEN Matched(lx, errs, NoToken)
    ELSE CHOOSE out \in
            { IF r.tok.type = None THEN lex_token(src, r.lexer, r.errors) ELSE r :
                r \in {MatchRule(src, lx, errs)} } : TRUE

\* PLYLexer.token
PLYLexer_token(src, lx, errs) ==
    CHOOSE out \in
        { IF r.tok.type = None THEN r
          ELSE [r EXCEPT !.lexer.last_token = r.tok,
                         !.lexer.last_tokens =
                             IF Len(r.lexer.last_tokens) + 1 > max_tokens_history
                             THEN Append(Tail(r.lexer.last_tokens), r.tok)
                             ELSE Append(r.lexer.last_tokens, r.tok)] :
            r \in {lex_token(src, lx, errs)} } : TRUE

\* The loop of compile_to_typescript that calls token() until it returns
\* nothing, collecting the tokens.
RECURSIVE TokenLoop(_, _, _, _)
TokenLoop(src, lx, errs, toks) ==
    CHOOSE out \in
        { IF r.tok.type = None THEN [lexer |-> r.lexer, errors |-> r.errors, tokens |-> toks]
          ELSE TokenLoop(src, r.lexer, r.errors, Append(toks, r.tok)) :
            r \in {PLYLexer_token(src, lx, errs)} } : TRUE

----------------------------------------------------------------------------
(***************************************************************************)
(* ply_parser.py                                                           *)
(***************************************************************************)

\* The AST of a program that was not parsed (parse returning None).
NoAst == [node |-> None]

\* PLYParser.__init__ (the symbol table, which compile_to_typescript never
\* reaches, is left out).
PLYParser_init ==
    [valid_code |-> TRUE,
     user_defined_functions |-> {},
     known_functions |-> <<"print", "input", "len", "str", "int", "float", "list", "range">>,
     function_contexts |-> <<>>,
     indent_level |-> 0,
     semantic_errors |-> <<>>]

\* 'def ' in text: a `def` followed by a space.
HasDefSpace(src) ==
    \E i \in DOMAIN src.lines : \E k \in DOMAIN src.lines[i].lex :
        /\ src.lines[i].lex[k] = "def"
        /\ k < Len(src.lines[i].lex)
        /\ ~NoSpaceBefore(src.lines[i], k + 1)

\* PLYParser.parse(text, lexer) called with a lexer object: the parser
\* afterwards and the value returned.  A PLYLexer has no attribute `errors`:
\* with valid_code true the test of line 825 evaluates lexer.errors, with
\* valid_code false line 826 does; either raises AttributeError, which the
\* except clause records in semantic_errors, and None is returned before
\* the grammar is run.
PLYParser_parse(prs, src, lx) ==
    [parser |-> [prs EXCEPT
                    !.indent_level = IF HasDefSpace(src) /\ prs.function_contexts # <<>>
                                     THEN 4 ELSE @,
                    !.semantic_errors = <<"Error inesperado: AttributeError">>],
     ast |-> NoAst]

----------------------------------------------------------------------------
(***************************************************************************)
(* typescript_generator.py.  Generated code is a sequence of lines, each   *)
(* an indentation width and the pieces of its text.                        *)
(***************************************************************************)

Out(indent, text) == [indent |-> indent, text |-> text]

\* A str | None value: None, or the lines of the code.
NoCode == [is_None |-> TRUE, lines |-> <<>>]
Code(lines) == [is_None |-> FALSE, lines |-> lines]

\* ', '.join(texts)
RECURSIVE JoinComma(_)
JoinComma(texts) ==
    IF texts = <<>> THEN <<>>
    ELSE IF Len(texts) = 1 THEN texts[1]
    ELSE texts[1] \o <<",">> \o JoinComma(Tail(texts))

\* TypeScriptGenerator.visit_expression, for identifiers, number literals,
\* binary expressions and calls of user functions.
RECURSIVE visit_expression(_)
visit_expression(node) ==
    CASE node.node = "Identifier" -> <<node.name>>
      [] node.node = "Literal" ->
            IF node.type_name[1] = "list<"
            THEN <<"[">> \o JoinComma([i \in DOMAIN node.items |-> visit_expression(node.items[i])])
                    \o <<"]">>
            ELSE IF node.type_name = <<"list">>
            THEN <<"str(node.value)">>      \* the repr of a list of node objects
            ELSE <<node.value>>
      [] node.node = "BinaryExpr" ->
            visit_expression(node.left) \o <<node.operator>> \o visit_expression(node.right)
      [] node.node = "CallExpr" ->
            <<node.callee.name, "(">>
              \o JoinComma([i \in DOMAIN node.arguments |-> visit_expression(node.arguments[i])])
              \o <<")">>
      [] OTHER -> <<>>

\* A TypeScriptGenerator: the lines emitted so far and the indentation
\* counter; levels is the list of the values the counter has taken.
TypeScriptGenerator_init == [output |-> <<>>, indentation |-> 0, levels |-> <<0>>]

\* TypeScriptGenerator.emit
emit(gen, code) == [gen EXCEPT !.output = Append(@, Out(2 * gen.indentation, code))]

\* self.indentation += d
Indented(gen, d) ==
    [gen EXCEPT !.indentation = @ + d, !.levels = Append(@, gen.indentation + d)]

\* self.type_mapping.get(t, 'any') of the generator
generator_type_mapping(t) ==
    CASE t = "int" -> "number" [] t = "str" -> "string" [] t = "float" -> "number"
      [] t = "bool" -> "boolean" [] t = "list" -> "Array<any>"
      [] t = "dict" -> "Record<string, any>" [] t = "None" -> "void"
      [] OTHER -> "any"

\* ' | '.join(types)
RECURSIVE JoinBar(_)
JoinBar(types) ==
    IF Len(types) <= 1 THEN types ELSE <<types[1], "|">> \o JoinBar(Tail(types))

\* The type visit_assignment_stmt infers for the value (lines 97-114); <<>>
\* is the empty string.  A type_name is a list of pieces: <<"number">>,
\* <<"list">>, <<"list<", "number", ">">>, <<"list<", "number", "|", "string", ">">>.
inferred_type(value) ==
    IF value.node # "Literal" THEN <<>>
    ELSE LET type_name == value.type_name
             element_type == SubSeq(type_name, 2, Len(type_name) - 1)
             types == SelectSeq(element_type, LAMBDA t : t # "|")
         IN  IF type_name \in {<<"number">>, <<"string">>, <<"boolean">>} THEN type_name
             ELSE IF type_name[1] = "list<"
             THEN IF Len(types) > 1
                  THEN <<"(">> \o JoinBar([i \in DOMAIN types |-> generator_type_mapping(types[i])])
                            \o <<")", "[]">>
                  ELSE <<generator_type_mapping(IF types = <<>> THEN "" ELSE types[1]), "[]">>
             ELSE IF type_name = <<"list">> THEN <<"any", "[]">>
             ELSE <<>>

\* TypeScriptGenerator.visit_statement with visit_function_def,
\* visit_if_statement, visit_for_stmt, visit_while_stmt,
\* visit_assignment_stmt, visit_return_stmt and visit_expression_stmt: the
\* generator after the statement.
RECURSIVE TypeScriptGenerator_visit_statements(_, _)
TypeScriptGenerator_visit_statement(gen, node) ==
    LET Body(g, stmts) ==
            Indented(TypeScriptGenerator_visit_statements(Indented(g, 1), stmts), -1)
    IN
    CASE node.node = "FunctionDef" ->
            emit(Body(emit(gen,
                  <<"function", node.name, "(">>
                    \o JoinComma([i \in DOMAIN node.params |->
                                     <<node.params[i].name, ":", node.params[i].type>>])
                    \o <<")", ":", node.return_type, "{">>), node.body), <<"}">>)
      [] node.node = "IfStmt" ->
            LET then_done == Body(emit(gen, <<"if", "(">> \o visit_expression(node.condition)
                                                \o <<")", "{">>), node.then_branch)
            IN  emit(IF node.else_branch # <<>>
                     THEN Body(emit(then_done, <<"}", "else", "{">>), node.else_branch)
                     ELSE then_done, <<"}">>)
      [] node.node = "WhileStmt" ->
            emit(Body(emit(gen, <<"while", "(">> \o visit_expression(node.condition)
                                     \o <<")", "{">>), node.body), <<"}">>)
      [] node.node = "ForStmt" ->
            LET v == node.variable.name
                it == node.iterable
                is_range == it.node = "CallExpr" /\ it.callee.node = "Identifier"
                                /\ it.callee.name = "range"
                args == it.arguments
                step == visit_expression(args[3])
                head ==
                    IF is_range /\ Len(args) = 1
                    THEN emit(gen, <<"for", "(", "let", v, "=", "0", ";", v, "<">>
                                 \o visit_expression(args[1]) \o <<";", v, "++", ")", "{">>)
                    ELSE IF is_range /\ Len(args) = 2
                    THEN emit(gen, <<"for", "(", "let", v, "=">> \o visit_expression(args[1])
                                 \o <<";", v, "<">> \o visit_expression(args[2])
                                 \o <<";", v, "++", ")", "{">>)
                    ELSE IF is_range /\ Len(args) = 3
                    THEN emit(gen, <<"for", "(", "let", v, "=">> \o visit_expression(args[1])
                                 \o <<";", v, IF step[1] = "-" THEN ">" ELSE "<">>
                                 \o visit_expression(args[2])
                                 \o <<";", v, "+=">> \o step \o <<")", "{">>)
                    ELSE IF is_range THEN gen
                    ELSE emit(gen, <<"for", "(", "const", v, "of">> \o visit_expression(it)
                                 \o <<")", "{">>)
            IN emit(Body(head, node.body), <<"}">>)
      [] node.node = "AssignmentStmt" ->
            emit(gen, <<"let", node.target.name>>
                        \o (IF inferred_type(node.value) # <<>>
                            THEN <<":">> \o inferred_type(node.value) ELSE <<>>)
                        \o <<"=">> \o visit_expression(node.value) \o <<";">>)
      [] node.node = "ReturnStmt" ->
            IF node.value.node # None
            THEN emit(gen, <<"return">> \o visit_expression(node.value) \o <<";">>)
            ELSE emit(gen, <<"return;">>)
      [] node.node = "ExpressionStmt" ->
            emit(gen, visit_expression(node.expression) \o <<";">>)
      [] OTHER -> gen

TypeScriptGenerator_visit_statements(gen, stmts) ==
    IF stmts = <<>> THEN gen
    ELSE TypeScriptGenerator_visit_statements(
            TypeScriptGenerator_visit_statement(gen, stmts[1]), Tail(stmts))

\* The lines emitted for a statement, and for statements, at the given
\* indentation level (emit writes two spaces per level).
visit_statement(node, indentation) ==
    TypeScriptGenerator_visit_statement(
        [TypeScriptGenerator_init EXCEPT !.indentation = indentation], node).output

visit_statements(stmts, indentation) ==
    TypeScriptGenerator_visit_statements(
        [TypeScriptGenerator_init EXCEPT !.indentation = indentation], stmts).output

\* TypeScriptGenerator.generate
TypeScriptGenerator_generate(tree) ==
    IF tree.node = None THEN <<>> ELSE visit_statements(tree.statements, 0)

----------------------------------------------------------------------------
(***************************************************************************)
(* main.py                                                                 *)
(***************************************************************************)

\* stripped.startswith(w + ' '): the line's first lexeme is w and a space
\* follows it.
StartsWithWord(line, w) ==
    Len(line.lex) >= 2 /\ line.lex[1] = w /\ ~NoSpaceBefore(line, 2)

\* stripped.split()[1].split('(')[0] of a `def` line (the name, which the
\* lines modelled follow directly with "(").
FuncNameOfDef(line) == line.lex[2]

\* The loop pre-registering the functions defined in the text (lines 38-55):
\* defined_functions and the parser afterwards.
RECURSIVE PreRegister(_, _, _, _)
PreRegister(src, i, defined, prs) ==
    IF i > NLines(src) THEN [defined_functions |-> defined, parser |-> prs]
    ELSE IF StartsWithWord(src.lines[i], "def")
    THEN LET func_name == FuncNameOfDef(src.lines[i])
             known == \E j \in DOMAIN prs.known_functions : prs.known_functions[j] = func_name
         IN PreRegister(src, i + 1, defined \cup {func_name},
                [prs EXCEPT !.user_defined_functions = @ \cup {func_name},
                            !.known_functions = IF known THEN @ ELSE Append(@, func_name),
                            !.function_contexts = Append(@, func_name)])
    ELSE PreRegister(src, i + 1, defined, prs)

HasLexeme(line, x) == \E k \in DOMAIN line.lex : line.lex[k] = x

\* The loop looking for a comma right before the last ")" of a line
\* (lines 59-80): the error list afterwards.
RECURSIVE TrailingCommas(_, _, _)
TrailingCommas(src, i, errs) ==
    IF i > NLines(src) THEN errs
    ELSE
    LET whole == src.lines[i]
        line == BeforeComment(whole)
        func_start == FindLexeme(line, "(")
        func_end == RFindLexeme(line, ")")
        dangling == /\ HasLexeme(whole, "(") /\ HasLexeme(whole, ")") /\ HasLexeme(whole, ",")
                    /\ func_start < func_end
                    /\ func_end - 1 > func_start
                    /\ line.lex[func_end - 1] = ","
    IN TrailingCommas(src, i + 1,
          IF dangling
          THEN add_error(errs,
                  CompilerError("SYNTACTIC", i, <<"Coma suelta en argumentos de funcion", "">>, i,
                      ColOf(line, func_end - 1),
                      <<"Elimina la coma o anade otro argumento despues de la coma", "">>))
          ELSE errs)

\* re.search(r'\b(if|for|while)\b.*:', source_code) or 'else:' in source_code
has_control_structures(src) ==
    \E i \in DOMAIN src.lines :
        LET lex == src.lines[i].lex IN
        \/ \E k \in DOMAIN lex, c \in DOMAIN lex :
              lex[k] \in {"if", "for", "while"} /\ k < c /\ lex[c] = ":"
        \/ \E k \in DOMAIN lex : lex[k] = "else" /\ k < Len(lex) /\ lex[k + 1] = ":"

\* Lexemes that contain the character '=', and what they hold before and
\* after their first '='.
EqLexemes == {"=", "==", "!=", "<=", ">="}
BeforeEq(x) == CASE x = "!=" -> <<"!">> [] x = "<=" -> <<"<">> [] x = ">=" -> <<">">> [] OTHER -> <<>>
AfterEq(x) == IF x = "==" THEN <<"=">> ELSE <<>>

\* Lexemes that contain one of '+', '-', '*', '/', '%'.
ArithLexemes == {"+", "-", "*", "/", "%", "->"}

\* The index of the first lexeme of the line that is in the set, 0 if none.
FirstIn(line, S) ==
    IF \E k \in DOMAIN line.lex : line.lex[k] \in S
    THEN CHOOSE k \in DOMAIN line.lex :
            line.lex[k] \in S /\ \A j \in DOMAIN line.lex : line.lex[j] \in S => k <= j
    ELSE 0

\* not stripped or stripped.startswith('#')
BlankOrComment(line) == line.lex = <<>> \/ line.lex[1] = "#c"

LastLexeme(line) == line.lex[Len(line.lex)]

\* convert_simple_expressions: one output line per source line.
convert_simple_line(line) ==
    LET e == FirstIn(line, EqLexemes) IN
    IF BlankOrComment(line) THEN Out(line.indent, line.lex)
    ELSE IF e # 0
    THEN Out(0, <<"let">> \o SubSeq(line.lex, 1, e - 1) \o BeforeEq(line.lex[e])
                   \o <<"=">> \o AfterEq(line.lex[e])
                   \o SubSeq(line.lex, e + 1, Len(line.lex)) \o <<";">>)
    ELSE IF Len(line.lex) >= 3 /\ line.lex[1] = "print" /\ line.lex[2] = "("
              /\ LastLexeme(line) = ")"
    THEN Out(0, <<"console.log", "(">> \o SubSeq(line.lex, 3, Len(line.lex) - 1) \o <<")", ";">>)
    ELSE Out(line.indent, line.lex)

convert_simple_expressions(src) == [i \in DOMAIN src.lines |-> convert_simple_line(src.lines[i])]

\* The index of the ")" that closes the "(" at index open, 0 if there is none.
RECURSIVE ClosingParen(_, _, _)
ClosingParen(lex, k, level) ==
    IF k > Len(lex) THEN 0
    ELSE IF lex[k] = "(" THEN ClosingParen(lex, k + 1, level + 1)
    ELSE IF lex[k] = ")"
    THEN IF level = 1 THEN k ELSE ClosingParen(lex, k + 1, level - 1)
    ELSE ClosingParen(lex, k + 1, level)

\* Lexeme k of the text stands between two spaces.
Spaced(line, k) ==
    /\ 1 < k /\ k < Len(line.lex)
    /\ ~NoSpaceBefore(line, k)
    /\ ~NoSpaceBefore(line, k + 1)

\* .replace(' and ', ' && ').replace(' or ', ' || ').replace(' not ', ' ! ')
\* on lexemes first..last of the line.
LogicalOps(line, first, last) ==
    [j \in 1..(last - first + 1) |->
        LET k == first + j - 1
            x == line.lex[k]
            inside == first < k /\ k < last /\ Spaced(line, k)
        IN IF inside /\ x = "and" THEN "&&"
           ELSE IF inside /\ x = "or" THEN "||"
           ELSE IF inside /\ x = "not" THEN "!"
           ELSE x]

\* .replace('len(', '').replace(')', '.length') on a condition.
RECURSIVE LenToLength(_)
LenToLength(text) ==
    IF text = <<>> THEN <<>>
    ELSE IF Len(text) >= 2 /\ text[1] = "len" /\ text[2] = "(" THEN LenToLength(SubSeq(text, 3, Len(text)))
    ELSE IF text[1] = ")" THEN <<".length">> \o LenToLength(Tail(text))
    ELSE <<text[1]>> \o LenToLength(Tail(text))

\* The first loop of convert_control_structures on one line.  (A `for` line
\* of the texts modelled has one ` in `.)
convert_control_line(line) ==
    LET n == Len(line.lex)
        e == FirstIn(line, EqLexemes)
        var_name == SubSeq(line.lex, 1, e - 1) \o BeforeEq(line.lex[e])
        close == ClosingParen(line.lex, 2, 0)
        in == CHOOSE k \in DOMAIN line.lex :
                 /\ line.lex[k] = "in" /\ Spaced(line, k)
                 /\ \A j \in DOMAIN line.lex : line.lex[j] = "in" /\ Spaced(line, j) => k <= j
    IN
    IF BlankOrComment(line) THEN Out(line.indent, line.lex)
    ELSE IF e # 0 /\ ~ \E w \in {"if", "for", "while", "elif"} : StartsWithWord(line, w)
    THEN IF var_name \in {<<"True">>, <<"False">>, <<"true">>, <<"false">>, <<"null">>, <<"undefined">>}
         THEN Out(line.indent, line.lex \o <<";">>)
         ELSE Out(line.indent, <<"let">> \o line.lex \o <<";">>)
    ELSE IF n >= 2 /\ line.lex[1] = "print" /\ line.lex[2] = "("
    THEN Out(line.indent,
             <<"console.log", "(">>
               \o (IF close = 0 THEN <<>> ELSE SubSeq(line.lex, 3, close - 1))
               \o <<")", ";">>)
    ELSE IF StartsWithWord(line, "if") /\ line.lex[n] = ":"
    THEN Out(line.indent, <<"if", "(">> \o LogicalOps(line, 2, n - 1) \o <<")", "{">>)
    ELSE IF line.lex = <<"else", ":">>
    THEN Out(line.indent, <<"}", "else", "{">>)
    ELSE IF /\ StartsWithWord(line, "for") /\ line.lex[n] = ":"
            /\ \E k \in DOMAIN line.lex : line.lex[k] = "in" /\ Spaced(line, k)
    THEN Out(line.indent,
             <<"for", "(", "const">> \o SubSeq(line.lex, 2, in - 1) \o <<"of">>
               \o SubSeq(line.lex, in + 1, n - 1) \o <<")", "{">>)
    ELSE IF StartsWithWord(line, "while") /\ line.lex[n] = ":"
    THEN Out(line.indent,
             <<"while", "(">>
               \o LenToLength(LogicalOps(line, 2, n - 1)) \o <<")", "{">>)
    ELSE IF \E k \in DOMAIN line.lex : line.lex[k] \in ArithLexemes
    THEN Out(line.indent, line.lex \o <<";">>)
    ELSE Out(line.indent, line.lex)

\* line.strip().endswith('{')
OpensBlock(out) == out.text # <<>> /\ out.text[Len(out.text)] = "{"

\* The inner loop of the second pass: close the pending blocks whose
\* indentation is not smaller than next_indent.
RECURSIVE CloseBlocks(_, _, _)
CloseBlocks(pending, processed, next_indent) ==
    IF pending # <<>> /\ next_indent <= pending[Len(pending)]
    THEN CloseBlocks(SubSeq(pending, 1, Len(pending) - 1),
                     Append(processed, Out(pending[Len(pending)], <<"}">>)), next_indent)
    ELSE [pending |-> pending, processed |-> processed]

\* The second pass of convert_control_structures, from output line i on, and
\* the closing of the blocks still pending at the end.
RECURSIVE AddClosingBraces(_, _, _, _)
AddClosingBraces(output_lines, i, pending, processed) ==
    IF i > Len(output_lines) THEN CloseBlocks(pending, processed, -1).processed
    ELSE
    LET line == output_lines[i]
        p1 == IF OpensBlock(line) THEN Append(pending, line.indent) ELSE pending
        pr1 == Append(processed, line)
        next_line == output_lines[i + 1]
    IN CHOOSE out \in
          { AddClosingBraces(output_lines, i + 1, closed.pending, closed.processed) :
              closed \in { IF /\ p1 # <<>> /\ i + 1 <= Len(output_lines)
                              /\ next_line.text # <<>> /\ next_line.text[1] # "#c"
                           THEN CloseBlocks(p1, pr1, next_line.indent)
                           ELSE [pending |-> p1, processed |-> pr1] } } : TRUE

\* convert_control_structures
convert_control_structures(src) ==
    AddClosingBraces([i \in DOMAIN src.lines |-> convert_control_line(src.lines[i])],
                     1, <<>>, <<>>)

----------------------------------------------------------------------------
(***************************************************************************)
(* compile_to_typescript, run on one source text.                          *)
(***************************************************************************)

MaxLines == 3

\* The lines source texts are made of.
Lines ==
    { Ln(0, <<"x", "=", "5">>),
      Ln(0, <<"return", "x">>),
      Ln(0, <<"def", "add", "(", "a", ":", "int", ",", "b", ":", "int", ")", "->", "int", ":">>),
      Ln(4, <<"return", "a", "+", "b">>),
      Ln(0, <<"add", "(", "1", ")">>),
      Ln(0, <<"g", "(", "y", ")">>),
      Ln(0, <<"print", "(", "x", ",", ")">>),
      Ln(0, <<"s", "=", "USTR">>),
      Ln(0, <<"z", "=", "STR", "+", "1">>),
      Ln(0, <<"if", "x", ":">>),
      Ln(0, <<"else", ":">>),
      Ln(0, <<"for", "i", "in", "range", "(", "3", ")", ":">>),
      Ln(4, <<"print", "(", "x", ")">>),
      Ln(4, <<"g", "(", "1", ")">>) }

Sources ==
    { [lines |-> l, final_newline |-> nl] :
        l \in UNION { [1..n -> Lines] : n \in 1..MaxLines }, nl \in BOOLEAN }

\* A diagnostic left in the global handler by an earlier compilation.
StaleError ==
    CompilerError("SYNTACTIC", 1, <<"Parentesis sin cerrar", "">>, 1, 0,
                  <<"Agrega el parentesis de cierre ')'", "">>)

\* What compile_to_typescript returns.
Result(code, errs) == [code |-> code, errors |-> errs]

Init ==
    /\ source \in Sources
    /\ errors \in {<<>>, <<StaleError>>}
    /\ function_advice_added = FALSE
    /\ last_op = [op |-> "init", arg |-> None]
    /\ last_output = None
    /\ lexer = None
    /\ tokens = <<>>
    /\ pc = "start"
    /\ has_lexical_errors = <<>>
    /\ parser = None
    /\ defined_functions = {}
    /\ ast = NoAst
    /\ result = Result(NoCode, <<>>)
    /\ symtab = None
    /\ analyzer = None
    /\ rd_parser = None
    /\ generator = None

\* Lines 18-32: clear_errors, the PLYLexer, the token loop, the lexical
\* diagnostics recorded so far.
Tokenize ==
    /\ pc = "start"
    /\ \E made \in {PLYLexer_init(source, <<>>)} :
       \E run \in {TokenLoop(source, made.lexer, made.errors, <<>>)} :
          /\ lexer' = run.lexer
          /\ tokens' = run.tokens
          /\ errors' = run.errors
          /\ has_lexical_errors' = get_errors_by_type(run.errors, "LEXICAL")
    /\ function_advice_added' = FALSE
    /\ pc' = "tokenized"
    /\ UNCHANGED <<stvars, hwvars, last_op, last_output, source, parser, defined_functions, ast, result>>

\* Lines 34-93: the PLYParser, the pre-registration of the functions, the
\* trailing commas, remove_function_errors, and indent_level.
Register ==
    /\ pc = "tokenized"
    /\ \E reg \in {PreRegister(source, 1, {}, PLYParser_init)} :
          /\ defined_functions' = reg.defined_functions
          /\ parser' = [reg.parser EXCEPT !.indent_level = IF HasDefSpace(source) THEN 4 ELSE @]
          /\ errors' = remove_function_errors(TrailingCommas(source, 1, errors),
                                              reg.defined_functions)
    /\ pc' = "registered"
    /\ UNCHANGED <<stvars, hwvars, function_advice_added, last_op, last_output, source, lexer, tokens,
                   has_lexical_errors, ast, result>>

\* Lines 95-98: the text has control structures and no lexical diagnostic.
ControlPath ==
    /\ pc = "registered"
    /\ has_control_structures(source) /\ has_lexical_errors = <<>>
    /\ result' = Result(Code(convert_control_structures(source)), <<>>)
    /\ pc' = "done"
    /\ UNCHANGED <<stvars, hwvars, ehvars, lexvars, has_lexical_errors, parser, defined_functions, ast>>

\* Lines 100-106: a second PLYLexer, and PLYParser.parse.
Parse ==
    /\ pc = "registered"
    /\ ~(has_control_structures(source) /\ has_lexical_errors = <<>>)
    /\ \E new_lexer \in {PLYLexer_init(source, errors)} :
       \E parsed \in {PLYParser_parse(parser, source, new_lexer.lexer)} :
          /\ errors' = new_lexer.errors
          /\ parser' = parsed.parser
          /\ ast' = parsed.ast
    /\ pc' = "parsed"
    /\ UNCHANGED <<stvars, hwvars, function_advice_added, last_op, last_output, lexvars,
                   has_lexical_errors, defined_functions, result>>

\* Lines 109-110: diagnostics are recorded.
ReturnErrors ==
    /\ pc = "parsed"
    /\ has_errors(errors)
    /\ result' = Result(NoCode, <<format_errors(errors)>>)
    /\ last_output' = format_errors(errors)
    /\ errors' = SortErrors(errors)
    /\ function_advice_added' = (function_advice_added \/ NeedsFunctionAdvice(errors))
    /\ pc' = "done"
    /\ UNCHANGED <<stvars, hwvars, last_op, lexvars, has_lexical_errors, parser, defined_functions, ast>>

\* Lines 112-126: no diagnostic is recorded.
ReturnCode ==
    /\ pc = "parsed"
    /\ ~has_errors(errors)
    /\ LET typescript_code == convert_simple_expressions(source)
           truthy == Len(typescript_code) > 1
                        \/ (Len(typescript_code) = 1
                              /\ (typescript_code[1].indent > 0 \/ typescript_code[1].text # <<>>))
       IN IF ast.node # None
          THEN /\ result' = Result(Code(TypeScriptGenerator_generate(ast)), <<>>)
               /\ UNCHANGED last_output
          ELSE IF ~has_control_structures(source) /\ truthy
          THEN /\ result' = Result(Code(typescript_code), <<>>)
               /\ UNCHANGED last_output
          ELSE /\ result' = Result(NoCode, <<format_errors(errors)>>)
               /\ last_output' = format_errors(errors)
    /\ pc' = "done"
    /\ UNCHANGED <<stvars, hwvars, errors, function_advice_added, last_op, lexvars,
                   has_lexical_errors, parser, defined_functions, ast>>

Next ==
    \/ Tokenize
    \/ Register
    \/ ControlPath
    \/ Parse
    \/ ReturnErrors
    \/ ReturnCode

Spec == Init /\ [][Next]_vars

----------------------------------------------------------------------------
(***************************************************************************)
(* ast_nodes.py, and the type mapping of the grammar actions, for the      *)
(* trees the generator is expected to be given.                            *)
(***************************************************************************)

Program(statements) == [node |-> "Program", statements |-> statements]
FunctionDef(name, params, return_type, body) ==
    [node |-> "FunctionDef", name |-> name, params |-> params,
     return_type |-> return_type, body |-> body]
Parameter(name, type) == [name |-> name, type |-> type]
ForStmt(variable, iterable, body) ==
    [node |-> "ForStmt", variable |-> variable, iterable |-> iterable, body |-> body]
ReturnStmt(value) == [node |-> "ReturnStmt", value |-> value]
ExpressionStmt(expression) == [node |-> "ExpressionStmt", expression |-> expression]
BinaryExpr(left, operator, right) ==
    [node |-> "BinaryExpr", left |-> left, operator |-> operator, right |-> right]
CallExpr(callee, arguments) == [node |-> "CallExpr", callee |-> callee, arguments |-> arguments]
Identifier(name) == [node |-> "Identifier", name |-> name]
Literal(value, type_name) == [node |-> "Literal", value |-> value, type_name |-> type_name]
\* A Literal whose value is the list of the items of a list literal.
ListLiteral(items, type_name) == [node |-> "Literal", items |-> items, type_name |-> type_name]

\* type_mapping of p_parameter and p_function_def
type_mapping(t) ==
    CASE t = "int" -> "number" [] t = "str" -> "string" [] t = "float" -> "number"
      [] t = "bool" -> "boolean" [] t = "list" -> "Array" [] t = "dict" -> "Record"
      [] OTHER -> t

----------------------------------------------------------------------------
(***************************************************************************)
(* Properties.                                                             *)
(***************************************************************************)

\* Two diagnostics agree on kind, line, message and column.
SameKey(a, b) ==
    a.type = b.type /\ a.line = b.line /\ a.message = b.message /\ a.column = b.column

\* A diagnostic with this type and message is recorded for this line.
Recorded(type, line, message) ==
    \E i \in DOMAIN errors :
        errors[i].type = type /\ errors[i].line = line /\ errors[i].message = message

\* The error list compile_to_typescript returned shows this message.
Returned(message) ==
    \E j \in DOMAIN result.errors : \E k \in DOMAIN result.errors[j].text :
        result.errors[j].text[k].message = message

\* Line i of the source calls `name`: the name directly followed by "(",
\* outside a `def` line.
CallsAt(i, name) ==
    /\ ~StartsWithWord(source.lines[i], "def")
    /\ \E k \in DOMAIN source.lines[i].lex :
          /\ source.lines[i].lex[k] = name
          /\ k < Len(source.lines[i].lex)
          /\ source.lines[i].lex[k + 1] = "("

\* The source has a line `def name(...`.
Defines(name) ==
    \E i \in DOMAIN source.lines :
        StartsWithWord(source.lines[i], "def") /\ FuncNameOfDef(source.lines[i]) = name

\* C1: compile_to_typescript returns code only when no diagnostic is
\* recorded in the error handler; when at least one is recorded the code is
\* None and the returned error list is not empty, on every path.
C1_CodeOnlyWithoutDiagnostics ==
    pc = "done" =>
        /\ ~result.code.is_None => errors = <<>>
        /\ errors # <<>> => result.code.is_None /\ result.errors # <<>>

MsgReturnOutside == <<"La sentencia 'return' debe estar dentro de una funcion", "">>

\* C2: a `return` at the top level (not indented, so in no function body)
\* produces the Semantic diagnostic for it and no generated output.
C2_TopLevelReturnRejected ==
    pc = "done" =>
        \A i \in DOMAIN source.lines :
            source.lines[i].indent = 0 /\ source.lines[i].lex[1] = "return" =>
                /\ Recorded("SEMANTIC", i, MsgReturnOutside)
                /\ result.code.is_None

\* C3: no 'function f not defined' diagnostic is returned for a function
\* the text defines, and a call to a name the text does not define and
\* that is not a builtin is returned as such a diagnostic.
C3_UndefinedFunctionsReported ==
    pc = "done" =>
        \A name \in Identifiers :
            /\ Defines(name) => ~Returned(MsgFuncUndef(name))
            /\ ( /\ ~Defines(name) /\ name \notin known_funcs
                 /\ \E i \in DOMAIN source.lines : CallsAt(i, name) )
               => Returned(MsgFuncUndef(name))

AddSource ==
    <<Ln(0, <<"def", "add", "(", "a", ":", "int", ",", "b", ":", "int", ")", "->", "int", ":">>),
      Ln(4, <<"return", "a", "+", "b">>)>>

AddProgram ==
    Program(<<FunctionDef("add",
                <<Parameter("a", type_mapping("int")), Parameter("b", type_mapping("int"))>>,
                type_mapping("int"),
                <<ReturnStmt(BinaryExpr(Identifier("a"), "+", Identifier("b")))>>)>>)

\* C4: `def add(a: int, b: int) -> int:` with the body `return a + b`
\* compiles with no diagnostic to the function declaration the generator
\* emits for it (number types, `return a + b;`).
C4_AddCompilesToFunction ==
    pc = "done" /\ source.lines = AddSource =>
        /\ errors = <<>>
        /\ result.errors = <<>>
        /\ ~result.code.is_None
        /\ result.code.lines = TypeScriptGenerator_generate(AddProgram)

RangeLoopLine == Ln(0, <<"for", "i", "in", "range", "(", "3", ")", ":">>)

RangeLoopStmt == ForStmt(Identifier("i"), CallExpr(Identifier("range"), <<Literal("3", <<"number">>)>>), <<>>)

\* C5: the code returned for a text with `for i in range(3):` has the
\* counted loop the generator emits for it, and no for-of loop over range.
C5_RangeLoopCounted ==
    pc = "done" /\ ~result.code.is_None =>
        \A i \in DOMAIN source.lines :
            source.lines[i] = RangeLoopLine =>
                /\ \E j \in DOMAIN result.code.lines :
                      result.code.lines[j] = visit_statement(RangeLoopStmt, 0)[1]
                /\ \A j \in DOMAIN result.code.lines :
                      SubSeq(result.code.lines[j].text, 1, 3) # <<"for", "(", "const">>

IsUnclosedStringError(e) ==
    e.type = "LEXICAL" /\ e.message[1] = MsgUnclosedString(0, 0)[1]

\* C6: when tokenization is over, each line on which a string is opened and
\* not closed has exactly one Lexical 'unterminated string' diagnostic, the
\* lexer is marked invalid, and no other line has such a diagnostic.
C6_OneDiagnosticPerUnclosedString ==
    pc = "tokenized" =>
        \A n \in DOMAIN source.lines :
            LET found == {i \in DOMAIN errors :
                            IsUnclosedStringError(errors[i]) /\ errors[i].line = n}
            IN IF HasLexeme(source.lines[n], "USTR")
               THEN Cardinality(found) = 1 /\ ~lexer.valid_code
               ELSE found = {}

\* The arity message of SymbolTable.check_function_call.
MsgArity(name) == <<"La funcion '%s' espera %s argumentos pero recibio %s", name>>

\* C7: a call add(1) of the function add defined with two parameters
\* produces a Semantic diagnostic about the number of arguments.
C7_ArityMismatchReported ==
    pc = "done" /\ Defines("add") =>
        \A i \in DOMAIN source.lines :
            source.lines[i] = Ln(0, <<"add", "(", "1", ")">>) =>
                Recorded("SEMANTIC", i, MsgArity("add"))

\* C8: a bare identifier argument of a call that no earlier line assigns
\* produces the 'variable not defined' Semantic diagnostic.
C8_UndefinedArgumentReported ==
    pc = "done" =>
        \A i \in DOMAIN source.lines :
            ( /\ source.lines[i] = Ln(0, <<"g", "(", "y", ")">>)
              /\ \A j \in 1..(i - 1) : ~StartsWithWord(source.lines[j], "y") )
            => Recorded("SEMANTIC", i, MsgVarUndef("y"))

\* C9: a line adding a string and an integer results in the Type
\* diagnostic check_type_compatibility records for these operand types.
C9_StringPlusIntReported ==
    pc = "done" =>
        \A i \in DOMAIN source.lines :
            source.lines[i] = Ln(0, <<"z", "=", "STR", "+", "1">>) =>
                Recorded("TYPE", i, MsgTypeError(TypeIncompatibility("str", "int", "+")))

NoDuplicateErrors ==
    \A i \in DOMAIN errors : \A j \in DOMAIN errors : i # j => ~SameKey(errors[i], errors[j])

AddErrorDeduplicates ==
    last_op'.op = "add_error" =>
        IF \E i \in DOMAIN errors : SameKey(errors[i], last_op'.arg)
        THEN errors' = errors
        ELSE errors' = Append(errors, last_op'.arg)

\* C10: the error list never holds two diagnostics that agree on kind,
\* line, message and column; add_error leaves the list unchanged when a
\* diagnostic with the same four values is recorded, whatever its code_line
\* and suggestion, and appends exactly one entry otherwise.
C10_NoDuplicateDiagnostics == []NoDuplicateErrors /\ [][AddErrorDeduplicates]_vars

\* add_error was just called with a diagnostic whose kind, line, message and
\* column are recorded with another suggestion, next to a second entry.
C10_Witness ==
    /\ last_op.op = "add_error"
    /\ Len(errors) = 2
    /\ \E i \in DOMAIN errors :
          SameKey(errors[i], last_op.arg) /\ errors[i].suggestion # last_op.arg.suggestion

\* A call of format_errors on the list as it is now would return what the
\* last call returned and leave the list as it is.
FormatErrorsRepeatable ==
    last_op.op = "format_errors" =>
        /\ format_errors(errors) = last_output
        /\ SortErrors(errors) = errors

\* A call of format_errors that directly follows another one.
FormatErrorsAgain ==
    last_op'.op = "format_errors" /\ last_op'.arg = "again" =>
        /\ last_output' = last_output
        /\ errors' = errors

\* C11: format_errors called twice in a row, with no diagnostic added or
\* removed in between, returns the same output both times, and the second
\* call leaves the recorded diagnostics and their order as the first left
\* them.
C11_FormatErrorsIdempotent == []FormatErrorsRepeatable /\ [][FormatErrorsAgain]_vars

\* format_errors was called twice in a row on two diagnostics with the same
\* sort key, a tie the sort has to keep in order.
C11_Witness ==
    /\ last_op.op = "format_errors" /\ last_op.arg = "again"
    /\ Len(errors) = 2
    /\ ~last_output.none_found
    /\ SortKeyLE(errors[2], errors[1])

----------------------------------------------------------------------------
(***************************************************************************)
(* symbol_table.py: Symbol, Scope and SymbolTable.                         *)
(***************************************************************************)

\* The longest chain of scopes, the global scope included, and the most
\* errors a SymbolTable records.
MaxDepth == 3
MaxSymErrors == 2

\* Symbol(name, type, kind, return_type); value and parameters, which no
\* method of the table reads, are left out.
Symbol(name, type, kind, return_type) ==
    [name |-> name, type |-> type, kind |-> kind, return_type |-> return_type]

\* resolve returning None
NoSymbol == [name |-> None]

\* Scope(parent, scope_type).  A chain of scopes is the sequence from the
\* global scope (first) to the current one (last): the parent of a scope is
\* the entry before it.  The children list, to which enter_scope appends and
\* which nothing reads, is left out: an exited scope is on no chain.
Scope(scope_type) == [symbols |-> {}, scope_type |-> scope_type]

\* name in scope.symbols, and scope.symbols[name]
Binds(scope, name) == \E s \in scope.symbols : s.name = name
Bound(scope, name) == CHOOSE s \in scope.symbols : s.name = name

\* Scope.define: the scope afterwards and the value returned.
Scope_define(scope, symbol) ==
    IF Binds(scope, symbol.name)
    THEN [scope |-> scope, ret |-> FALSE]
    ELSE [scope |-> [scope EXCEPT !.symbols = @ \cup {symbol}], ret |-> TRUE]

\* Scope.resolve of the i-th scope of a chain.
RECURSIVE Scope_resolve(_, _, _)
Scope_resolve(chain, i, name) ==
    IF Binds(chain[i], name) THEN Bound(chain[i], name)
    ELSE IF i > 1 THEN Scope_resolve(chain, i - 1, name)
    ELSE NoSymbol

\* SymbolTable._define_builtins
Builtins ==
    { Symbol("int", "type", "function", "int"),
      Symbol("str", "type", "function", "str"),
      Symbol("float", "type", "function", "float"),
      Symbol("bool", "type", "function", "bool"),
      Symbol("print", "function", "function", "None"),
      Symbol("input", "function", "function", "str"),
      Symbol("len", "function", "function", "int") }

MsgFunctionRedefined(name) == <<"Error semantico: La funcion '%s' ya esta definida", name>>
MsgVariableRedefined(name) ==
    <<"Error semantico: La variable '%s' ya esta definida en este ambito", name>>

\* SymbolTable.__init__: the global scope with the builtins, no error.
SymbolTable_init ==
    [chain |-> <<[Scope("global") EXCEPT !.symbols = Builtins]>>,
     errors |-> <<>>,
     last |-> [op |-> "init"]]

\* SymbolTable.enter_scope
SymbolTable_enter_scope(st, scope_type) ==
    [st EXCEPT !.chain = Append(@, Scope(scope_type))]

\* SymbolTable.exit_scope: nothing happens in the global scope.
SymbolTable_exit_scope(st) ==
    IF Len(st.chain) > 1
    THEN [st EXCEPT !.chain = SubSeq(@, 1, Len(@) - 1)]
    ELSE st

\* A define that binds every symbol, functions included, in the current
\* scope.
SymbolTable_define_InCurrentScope(st, symbol) ==
    LET n == Len(st.chain)
    IN  IF Binds(st.chain[n], symbol.name)
        THEN [st |-> [st EXCEPT !.errors = Append(@, MsgVariableRedefined(symbol.name))],
              ret |-> FALSE]
        ELSE [st |-> [st EXCEPT !.chain[n].symbols = @ \cup {symbol}], ret |-> TRUE]

\* A define that reports a redefinition and rebinds the name to the new
\* symbol.
SymbolTable_define_Rebinding(st, symbol) ==
    LET n == Len(st.chain)
        k == IF symbol.kind = "function" THEN 1 ELSE n
    IN  IF Binds(st.chain[k], symbol.name)
        THEN [st |-> [st EXCEPT
                        !.errors = Append(@, IF k = 1 /\ symbol.kind = "function"
                                             THEN MsgFunctionRedefined(symbol.name)
                                             ELSE MsgVariableRedefined(symbol.name)),
                        !.chain[k].symbols =
                            (@ \ {Bound(st.chain[k], symbol.name)}) \cup {symbol}],
              ret |-> FALSE]
        ELSE [st |-> [st EXCEPT !.chain[k].symbols = @ \cup {symbol}], ret |-> TRUE]

\* SymbolTable.define: the table afterwards and the value returned.
SymbolTable_define(st, symbol) ==
    LET n == Len(st.chain)
    IN  IF symbol.kind = "function"
        THEN IF Binds(st.chain[1], symbol.name)
             THEN [st |-> [st EXCEPT !.errors = Append(@, MsgFunctionRedefined(symbol.name))],
                   ret |-> FALSE]
             ELSE [st |-> [st EXCEPT !.chain[1].symbols = @ \cup {symbol}], ret |-> TRUE]
        ELSE IF Binds(st.chain[n], symbol.name)
             THEN [st |-> [st EXCEPT !.errors = Append(@, MsgVariableRedefined(symbol.name))],
                   ret |-> FALSE]
             ELSE [st |-> [st EXCEPT !.chain[n].symbols = @ \cup {symbol}], ret |-> TRUE]

\* SymbolTable.resolve: from the current scope up to the global one.
SymbolTable_resolve(st, name) == Scope_resolve(st.chain, Len(st.chain), name)

(***************************************************************************)
(* A SymbolTable driven through enter_scope, exit_scope and define.        *)
(***************************************************************************)

\* Symbols handed to define.
DefineInputs ==
    { Symbol(n, "function", "function", r) : n \in {"f", "print"}, r \in {"int", "None"} }
    \cup { Symbol("f", t, "variable", None) : t \in {"int", "str"} }
    \cup { Symbol("print", "int", "variable", None), Symbol("f", "int", "parameter", None) }

InitST ==
    /\ symtab = SymbolTable_init
    /\ analyzer = None
    /\ rd_parser = None
    /\ generator = None
    /\ errors = <<>>
    /\ function_advice_added = FALSE
    /\ last_op = [op |-> "init", arg |-> None]
    /\ last_output = None
    /\ source = None
    /\ lexer = None
    /\ tokens = <<>>
    /\ pc = "idle"
    /\ has_lexical_errors = <<>>
    /\ parser = PLYParser_init
    /\ defined_functions = {}
    /\ ast = None
    /\ result = None

Call_enter_scope ==
    \E scope_type \in {"block", "function"} :
        /\ Len(symtab.chain) < MaxDepth
        /\ symtab' = [SymbolTable_enter_scope(symtab, scope_type)
                        EXCEPT !.last = [op |-> "enter_scope"]]
        /\ UNCHANGED <<hwvars, ehvars, lexvars, compvars>>

Call_exit_scope ==
    /\ symtab' = [SymbolTable_exit_scope(symtab) EXCEPT !.last = [op |-> "exit_scope"]]
    /\ UNCHANGED <<hwvars, ehvars, lexvars, compvars>>

Call_define ==
    \E symbol \in DefineInputs :
        \E done \in {SymbolTable_define(symtab, symbol)} :
            /\ Len(done.st.errors) <= MaxSymErrors
            /\ symtab' = [done.st EXCEPT !.last = [op |-> "define", arg |-> symbol,
                                                   ret |-> done.ret]]
            /\ UNCHANGED <<hwvars, ehvars, lexvars, compvars>>

\* The most function definitions the parser reduces: each appends to
\* known_functions.
MaxFunctionDefs == 1

\* PLYParser.p_function_def for `def name(params) -> return_type:`, reduced
\* when the body has been parsed: the parser and its symbol table afterwards,
\* and the calls made on the symbol table, in order.  The value define
\* returns is not looked at.
p_function_def(prs, st, name, params, return_type) ==
    LET func_symbol == Symbol(name, "function", "function", type_mapping(return_type))
    IN  [parser |-> [prs EXCEPT !.user_defined_functions = @ \cup {name},
                                !.known_functions = Append(@, name),
                                !.indent_level = 4],
         symbol_table |-> SymbolTable_define(st, func_symbol).st,
         calls |-> <<[op |-> "define", arg |-> func_symbol]>>]

\* The parser reduces a function definition.
Call_p_function_def ==
    \E name \in {"f"}, params \in {<<>>, <<"a">>, <<"a", "b">>}, return_type \in {"int"} :
        \E done \in {p_function_def(parser, symtab, name, params, return_type)} :
            /\ Len(parser.known_functions) < Len(PLYParser_init.known_functions) + MaxFunctionDefs
            /\ Len(done.symbol_table.errors) <= MaxSymErrors
            /\ parser' = done.parser
            /\ symtab' = [done.symbol_table EXCEPT
                            !.last = [op |-> "p_function_def", params |-> params,
                                      calls |-> done.calls]]
            /\ UNCHANGED <<hwvars, ehvars, lexvars, pc, has_lexical_errors, defined_functions,
                           ast, result>>

NextST ==
    \/ Call_enter_scope
    \/ Call_exit_scope
    \/ Call_define
    \/ Call_p_function_def

SpecST == InitST /\ [][NextST]_vars

----------------------------------------------------------------------------
(***************************************************************************)
(* Properties of the SymbolTable.                                          *)
(***************************************************************************)

\* The step is a call of define with a function-kind symbol.
DefinesFunction == symtab'.last.op = "define" /\ symtab'.last.arg.kind = "function"

\* The step is a call of define with a name the relevant scope binds: the
\* global scope for a function, the current scope otherwise.
Redefines ==
    /\ symtab'.last.op = "define"
    /\ Binds(symtab.chain[IF symtab'.last.arg.kind = "function" THEN 1
                          ELSE Len(symtab.chain)],
             symtab'.last.arg.name)

\* What define of a function does besides making it resolve: the inner
\* scopes' symbol maps stay as they are and no scope is entered or exited;
\* when the global scope binds the name, False is returned and exactly one
\* error is recorded, and otherwise the global scope gets the symbol, which
\* resolves from the global scope, that is after every inner scope is exited.
FunctionBoundGlobally ==
    LET symbol == symtab'.last.arg
    IN  /\ Len(symtab'.chain) = Len(symtab.chain)
        /\ \A i \in 2..Len(symtab.chain) : symtab'.chain[i] = symtab.chain[i]
        /\ IF Binds(symtab.chain[1], symbol.name)
           THEN /\ ~symtab'.last.ret
                /\ Len(symtab'.errors) = Len(symtab.errors) + 1
                /\ SubSeq(symtab'.errors, 1, Len(symtab.errors)) = symtab.errors
                /\ symtab'.chain[1] = symtab.chain[1]
           ELSE /\ symtab'.last.ret
                /\ symtab'.errors = symtab.errors
                /\ symtab'.chain[1].symbols = symtab.chain[1].symbols \cup {symbol}
                /\ Scope_resolve(symtab'.chain, 1, symbol.name) = symbol

\* C12 as stated: define of a function-kind symbol binds it in the global
\* scope however many scopes are entered; the function then resolves from
\* every scope and after all inner scopes are exited, the current scope's
\* own symbol map is not modified, and define returns False and records
\* exactly one error when the global scope binds the name.
C12_FunctionResolvesFromEveryScope ==
    [][DefinesFunction =>
         /\ FunctionBoundGlobally
         /\ symtab'.last.ret =>
               \A i \in 1..Len(symtab'.chain) :
                   Scope_resolve(symtab'.chain, i, symtab'.last.arg.name) = symtab'.last.arg]_vars

\* C12 amended: as above, but the function resolves from the scopes between
\* which and the global scope no scope binds the same name itself; from a
\* scope that has, or lies inside a scope that has, a variable or parameter
\* of that name, resolve returns that nearer symbol.
C12_FunctionResolvesWhereNotShadowed ==
    [][DefinesFunction =>
         /\ FunctionBoundGlobally
         /\ symtab'.last.ret =>
               \A i \in 1..Len(symtab'.chain) :
                   LET shadows == {j \in 2..i : Binds(symtab'.chain[j], symtab'.last.arg.name)}
                   IN  Scope_resolve(symtab'.chain, i, symtab'.last.arg.name) =
                          IF shadows = {} THEN symtab'.last.arg
                          ELSE Bound(symtab'.chain[CHOOSE j \in shadows :
                                                      \A k \in shadows : k <= j],
                                     symtab'.last.arg.name)]_vars

\* define has just bound a function from inside two nested scopes, the inner
\* of which has a variable of its own; the function resolves there.
C12_Witness ==
    /\ symtab.last.op = "define"
    /\ symtab.last.arg.kind = "function"
    /\ symtab.last.ret
    /\ Len(symtab.chain) = 3
    /\ symtab.chain[3].symbols # {}
    /\ SymbolTable_resolve(symtab, symtab.last.arg.name) = symtab.last.arg

\* C13: define of a name the relevant scope binds (the global scope for a
\* function, the current scope for a variable or parameter) returns False,
\* records one redefinition error and leaves the bindings of every scope as
\* they are: the name resolves to the first-bound symbol from every scope,
\* a builtin such as print included.
C13_RedefinitionKeepsFirstBinding ==
    [][Redefines =>
         /\ ~symtab'.last.ret
         /\ symtab'.errors = Append(symtab.errors,
                IF symtab'.last.arg.kind = "function"
                THEN MsgFunctionRedefined(symtab'.last.arg.name)
                ELSE MsgVariableRedefined(symtab'.last.arg.name))
         /\ symtab'.chain = symtab.chain
         /\ \A i \in 1..Len(symtab.chain) :
               Scope_resolve(symtab'.chain, i, symtab'.last.arg.name) =
                  Scope_resolve(symtab.chain, i, symtab'.last.arg.name)]_vars

\* define of a function print has just been refused: print resolves to the
\* builtin, and one error is recorded.
C13_Witness ==
    /\ symtab.last.op = "define"
    /\ symtab.last.arg.name = "print"
    /\ symtab.last.arg.kind = "function"
    /\ ~symtab.last.ret
    /\ symtab.errors = <<MsgFunctionRedefined("print")>>
    /\ SymbolTable_resolve(symtab, "print") = Symbol("print", "function", "function", "None")
    /\ SymbolTable_resolve(symtab, "print") # symtab.last.arg

\* After exit_scope of a scope that is not the global one, a variable or
\* parameter bound in the exited scope resolves only to what an enclosing
\* scope binds under its name, and to nothing when none does.
ScopedSymbolsGoneAfterExit ==
    symtab'.last.op = "exit_scope" /\ Len(symtab.chain) > 1 =>
        LET n == Len(symtab.chain)
        IN  /\ symtab'.chain = SubSeq(symtab.chain, 1, n - 1)
            /\ \A s \in symtab.chain[n].symbols :
                  s.kind \in {"variable", "parameter"} =>
                      SymbolTable_resolve(symtab', s.name) =
                         IF \E i \in 1..(n - 1) : Binds(symtab.chain[i], s.name)
                         THEN Scope_resolve(symtab.chain, n - 1, s.name)
                         ELSE NoSymbol

\* Every binding of the global scope is kept by every step.
GlobalBindingsKept ==
    \A s \in symtab.chain[1].symbols : Scope_resolve(symtab'.chain, 1, s.name) = s

\* When the parser reduces a function definition, it enters a function
\* scope, defines the parameters in it and exits it.
ParametersInFunctionScope ==
    symtab'.last.op = "p_function_def" =>
        LET calls == symtab'.last.calls
            params == symtab'.last.params
        IN  /\ Len(symtab'.chain) = Len(symtab.chain)
            /\ \E i, j \in DOMAIN calls :
                  /\ i < j
                  /\ calls[i].op = "enter_scope" /\ calls[i].arg = "function"
                  /\ calls[j].op = "exit_scope"
                  /\ \A k \in DOMAIN params :
                        \E d \in (i + 1)..(j - 1) :
                            /\ calls[d].op = "define"
                            /\ calls[d].arg.name = params[k]
                            /\ calls[d].arg.kind = "parameter"

\* C14: a variable or parameter defined inside an entered scope is not
\* returned by resolve once that scope is exited, unless an enclosing scope
\* binds the same name itself; global bindings made earlier resolve
\* unchanged afterwards; and when the parser processes a function definition
\* its parameters are bound in a function scope that is popped at the end of
\* the definition.
C14_ParametersScopedToFunction ==
    /\ [][ScopedSymbolsGoneAfterExit]_vars
    /\ [][GlobalBindingsKept]_vars
    /\ [][ParametersInFunctionScope]_vars

\* The part of C14 about enter_scope, define and exit_scope alone.
ScopesIsolateSymbols == [][ScopedSymbolsGoneAfterExit /\ GlobalBindingsKept]_vars

----------------------------------------------------------------------------
(***************************************************************************)
(* lexer.py: LexicalAnalyzer, the tokenizer written for parser.py.         *)
(* The texts it is given here contain no string literal.                   *)
(***************************************************************************)

LexicalAnalyzer_keywords ==
    {"break", "case", "catch", "class", "const", "continue", "debugger",
     "default", "delete", "do", "else", "enum", "export", "extends",
     "false", "finally", "for", "function", "if", "import", "in",
     "instanceof", "new", "null", "return", "super", "switch", "this",
     "throw", "true", "try", "typeof", "var", "void", "while", "with",
     "as", "implements", "interface", "let", "package", "private",
     "protected", "public", "static", "yield", "any", "boolean", "constructor",
     "declare", "get", "module", "require", "set", "symbol", "type",
     "from", "of", "async", "await",
     "def", "elif", "True", "False", "None", "readonly", "pass"}

type_hints ==
    {"int", "str", "float", "bool", "list", "dict", "tuple", "set",
     "number", "string", "boolean", "any", "void", "never", "object",
     "Array", "Record", "Partial", "Required", "Pick", "Omit",
     "undefined", "null", "unknown", "bigint", "symbol",
     "Promise", "Map", "Set", "Date", "RegExp"}

valid_operators ==
    {"=", "+", "-", "*", "/", "%", "+=", "-=", "*=", "/=", "%=",
     "==", "!=", "<", "<=", ">", ">=", "**", "//", "??", "?.", "!.", "->"}

\* The characters of t_DELIMITER's class.
DelimiterChars == {"(", ")", "{", "}", "[", "]", ",", ".", ":", ";", "?", "@"}

\* special_chars of LexicalAnalyzer.t_error
special_chars == {"!", "@", "#", "$", "%", "^", "&", "~"}

\* common_identifiers of tokenize
common_identifiers ==
    {"main", "base", "altura", "area", "valor", "resultado", "nombre", "suma", "resta", "total"}

\* _find_similar_word(word, valid_keywords) for the names of Identifiers:
\* the first word of valid_keywords at the smallest Levenshtein distance, if
\* that distance is at most 2 ("if" is at distance 1 or 2 of every name of
\* one letter).
find_similar_keyword(word) ==
    IF word \in {"x", "y", "z", "s", "a", "b", "i", "f", "g"} THEN "if"
    ELSE IF word = "print" THEN "print"
    ELSE None

\* _find_similar_word(word, valid_types) for the names of Identifiers that
\* t_IDENTIFIER does not make a TYPE_HINT.
find_similar_type(word) ==
    IF word \in {"s"} THEN "str"
    ELSE IF word \in {"i"} THEN "int"
    ELSE None

Position(line, column, index) == [line |-> line, column |-> column, index |-> index]

LexicalError(message, position) == [message |-> message, position |-> position]

MsgNotKeyword(value, similar) ==
    <<"'%s' no es una palabra clave valida. Quisiste decir '%s'?", value, similar>>
MsgNotType(value, similar) ==
    <<"'%s' no es un tipo valido. Quisiste decir '%s'?", value, similar>>
MsgSpecialChar(c) == <<"Caracter especial no permitido '%s'", c>>
MsgInvalidOperator(v) == <<"Operador invalido '%s'", v>>

\* The pattern of t_OPERATOR,
\*   ->|=|[+\-*/%]=?|==|!=|<=?|>=?|\*\*|\/\/|\?\?|\?\.|\!\.
\* applied to the characters cs: the number of characters the first
\* alternative that matches takes, 0 when none matches.
t_OPERATOR_pattern(cs) ==
    LET c1 == cs[1]
        c2 == IF Len(cs) >= 2 THEN cs[2] ELSE ""
    IN  IF c1 = "-" /\ c2 = ">" THEN 2
        ELSE IF c1 = "=" THEN 1
        ELSE IF c1 \in {"+", "-", "*", "/", "%"} THEN (IF c2 = "=" THEN 2 ELSE 1)
        ELSE IF c1 = "=" /\ c2 = "=" THEN 2
        ELSE IF c1 = "!" /\ c2 = "=" THEN 2
        ELSE IF c1 = "<" THEN (IF c2 = "=" THEN 2 ELSE 1)
        ELSE IF c1 = ">" THEN (IF c2 = "=" THEN 2 ELSE 1)
        ELSE IF c1 = "*" /\ c2 = "*" THEN 2
        ELSE IF c1 = "/" /\ c2 = "/" THEN 2
        ELSE IF c1 = "?" /\ c2 = "?" THEN 2
        ELSE IF c1 = "?" /\ c2 = "." THEN 2
        ELSE IF c1 = "!" /\ c2 = "." THEN 2
        ELSE 0

\* The text made of the first n (1 or 2) characters of cs.
Text(cs, n) == IF n = 2 THEN cs[1] \o cs[2] ELSE cs[1]

\* get_position with find_column: lexpos less the offset of the last newline
\* before it, or less 0 on the first line.
get_position(src, li, lineno, lexpos) ==
    Position(lineno, IF li = 1 THEN lexpos ELSE lexpos - (LineStart(src, li) - 1), lexpos)

\* The scanner's position p: lexeme k of line li past sub characters, and
\* lexer.lineno.
LexicalAnalyzer_AtEnd(src, p) ==
    \/ p.li > NLines(src)
    \/ p.li = NLines(src) /\ p.k > Len(src.lines[p.li].lex) /\ ~src.final_newline

LexicalAnalyzer_Advance(src, p, n) ==
    IF p.sub + n < Len(Chars(src.lines[p.li].lex[p.k]))
    THEN [p EXCEPT !.sub = @ + n]
    ELSE [p EXCEPT !.k = @ + 1, !.sub = 0]

\* One call of self.lexer.token() in LexicalAnalyzer when the text has not
\* ended: the rule that matches at lexpos, in the order PLY tries them
\* (t_OPERATOR, t_ARROW, t_IDENTIFIER, t_NUMBER, t_COMMENT, t_newline, then
\* t_DELIMITER; t_error when none does), with what it appends to errors.
LexicalAnalyzer_rule(src, p, errs) ==
    IF p.k > Len(src.lines[p.li].lex)
    THEN \* t_newline
         LET run == NewlineRun(src, p.li)
             lexpos == LexPos(src, p.li, p.k)
         IN [p |-> [li |-> p.li + run, k |-> 1, sub |-> 0, lineno |-> p.lineno + run],
             errors |-> errs,
             tok |-> [type |-> "newline", value |-> "\n",
                      position |-> get_position(src, p.li, p.lineno, lexpos)]]
    ELSE
    LET x == src.lines[p.li].lex[p.k]
        cs == SubSeq(Chars(x), p.sub + 1, Len(Chars(x)))
        lexpos == LexPos(src, p.li, p.k) + p.sub
        position == get_position(src, p.li, p.lineno, lexpos)
        n == t_OPERATOR_pattern(cs)
        Made(taken, es, type, value) ==
            [p |-> LexicalAnalyzer_Advance(src, p, taken), errors |-> es,
             tok |-> [type |-> type, value |-> value, position |-> position]]
    IN  IF n > 0
        THEN \* t_OPERATOR
             IF Text(cs, n) \notin valid_operators
             THEN Made(n, Append(errs, LexicalError(MsgInvalidOperator(Text(cs, n)), position)),
                      "error", Text(cs, n))
             ELSE Made(n, errs, "operator", Text(cs, n))
        ELSE IF x \in Keywords \cup Identifiers
        THEN \* t_IDENTIFIER
             Made(1, errs,
                 IF x \in LexicalAnalyzer_keywords THEN "keyword"
                 ELSE IF x \in type_hints THEN "type_hint"
                 ELSE "identifier", x)
        ELSE IF x \in NumberLexemes THEN Made(1, errs, "number", x)
        ELSE IF x = "#c" THEN Made(1, errs, "comment", x)
        ELSE IF cs[1] \in DelimiterChars THEN Made(1, errs, "delimiter", cs[1])
        ELSE \* t_error: every character met here is ASCII, which
             \* _is_valid_unicode accepts
             Made(1, IF cs[1] \in special_chars
                    THEN Append(errs, LexicalError(MsgSpecialChar(cs[1]), position))
                    ELSE errs,
                 "error", cs[1])

\* tokenize's token when self.lexer.token() returned None
NoLexToken == [type |-> None, value |-> None]

LexicalAnalyzer_token(src, p, errs) ==
    IF LexicalAnalyzer_AtEnd(src, p) THEN [p |-> p, errors |-> errs, tok |-> NoLexToken]
    ELSE LexicalAnalyzer_rule(src, p, errs)

\* One turn of the loop of LexicalAnalyzer.tokenize on the token r.tok just
\* read, st holding tokens_list, errors and the loop's locals.  (param_tokens,
\* current_param and expect_param_type, which are written and never read,
\* are left out.)
tokenize_turn(src, st, r) ==
    LET token == r.tok
        word == token.value
        e1 == IF token.type = "identifier" /\ word \notin common_identifiers /\ ~st.in_params
                 /\ find_similar_keyword(word) # None /\ find_similar_keyword(word) # word
              THEN Append(r.errors, LexicalError(MsgNotKeyword(word, find_similar_keyword(word)),
                                                 token.position))
              ELSE r.errors
        e2 == IF /\ token.type = "identifier"
                 /\ \/ st.in_params /\ st.last_param_token.value = ":"
                    \/ st.after_return_type
                 /\ find_similar_type(word) # None /\ find_similar_type(word) # word
              THEN Append(e1, LexicalError(MsgNotType(word, find_similar_type(word)), token.position))
              ELSE e1
        dropped == /\ token.value \notin {"(", ")"} /\ st.in_params
                   /\ token.type \in {"comment", "newline"}
        in_params == IF token.value = "(" THEN TRUE
                     ELSE IF token.value = ")" THEN FALSE
                     ELSE st.in_params
        missing_comma == /\ token.value \notin {"(", ")", ","} /\ st.in_params
                         /\ token.type = "identifier"
                         /\ st.last_param_token.type = "type_hint"
        e3 == IF missing_comma
              THEN Append(e2, LexicalError(<<"Falta una coma entre parametros">>, token.position))
              ELSE e2
        last_param_token ==
              IF token.value = "(" THEN NoLexToken
              ELSE IF token.value = ")" \/ ~st.in_params THEN st.last_param_token
              ELSE IF token.value = "," THEN NoLexToken
              ELSE token
        is_def == token.type = "keyword" /\ token.value = "def"
        arrow == ~is_def /\ st.expect_function_colon
                 /\ token.type = "operator" /\ token.value = "->"
        returns == ~is_def /\ st.expect_function_colon /\ ~arrow
                   /\ st.after_return_type /\ token.type = "type_hint"
        ends == ~is_def /\ st.expect_function_colon /\ ~arrow /\ ~returns
                /\ token.type = "newline"
        next_token == LexicalAnalyzer_token(src, r.p, e3)
        colon == next_token.tok.type = "delimiter" /\ next_token.tok.value = ":"
    IN  IF dropped
        THEN [st EXCEPT !.p = r.p, !.errors = e2]
        ELSE [p |-> IF returns THEN next_token.p ELSE r.p,
              errors |-> IF returns /\ ~colon
                         THEN Append(next_token.errors,
                                     LexicalError(<<"Falta el ':' despues de la definicion de funcion">>,
                                                  token.position))
                         ELSE IF returns THEN next_token.errors ELSE e3,
              tokens_list |-> IF returns /\ colon
                              THEN Append(Append(st.tokens_list, next_token.tok), token)
                              ELSE Append(st.tokens_list, token),
              in_params |-> in_params,
              last_param_token |-> last_param_token,
              expect_function_colon |-> IF is_def THEN TRUE
                                        ELSE IF returns \/ ends THEN FALSE
                                        ELSE st.expect_function_colon,
              after_return_type |-> IF arrow THEN TRUE
                                    ELSE IF returns \/ ends THEN FALSE
                                    ELSE st.after_return_type]

RECURSIVE tokenize_loop(_, _)
tokenize_loop(src, st) ==
    CHOOSE out \in
        { IF r.tok.type = None THEN [st EXCEPT !.errors = r.errors]
          ELSE tokenize_loop(src, tokenize_turn(src, st, r)) :
            r \in {LexicalAnalyzer_token(src, st.p, st.errors)} } : TRUE

\* LexicalAnalyzer.tokenize on a fresh object: tokens_list and errors
\* afterwards.  No token of type EOF is appended when the text ends.
LexicalAnalyzer_tokenize(src) ==
    CHOOSE out \in
        { [tokens_list |-> st.tokens_list, errors |-> st.errors] :
            st \in {tokenize_loop(src,
                       [p |-> [li |-> 1, k |-> 1, sub |-> 0, lineno |-> 1],
                        errors |-> <<>>, tokens_list |-> <<>>,
                        in_params |-> FALSE, last_param_token |-> NoLexToken,
                        expect_function_colon |-> FALSE, after_return_type |-> FALSE])} } : TRUE

----------------------------------------------------------------------------
(***************************************************************************)
(* parser.py: the end test of Parser.                                      *)
(***************************************************************************)

\* Parser.__init__ (indent_level, which nothing reads, left out); raised
\* is the exception a call let escape, None when none did, and last the
\* method called last.
Parser_init(toks) ==
    [tokens |-> toks, current |-> 0, errors |-> <<>>, raised |-> None, last |-> "init"]

\* Parser.peek: self.tokens[self.current], an IndexError when current is
\* not an index of the list.
Parser_peek(prs) ==
    IF prs.current < Len(prs.tokens)
    THEN [raised |-> None, value |-> prs.tokens[prs.current + 1]]
    ELSE [raised |-> "IndexError", value |-> NoLexToken]

\* Parser.is_at_end
Parser_is_at_end(prs) ==
    [raised |-> Parser_peek(prs).raised,
     value |-> Parser_peek(prs).raised = None /\ Parser_peek(prs).value.type = "eof"]

\* Parser.advance
Parser_advance(prs) ==
    IF Parser_is_at_end(prs).raised # None
    THEN [prs EXCEPT !.raised = Parser_is_at_end(prs).raised]
    ELSE IF ~Parser_is_at_end(prs).value THEN [prs EXCEPT !.current = @ + 1]
    ELSE prs

----------------------------------------------------------------------------
(***************************************************************************)
(* The two tokenizers run on one source text, token by token: PLYLexer     *)
(* through token() until it returns None, then LexicalAnalyzer.tokenize    *)
(* and a Parser made of its tokens, moved by advance().                    *)
(***************************************************************************)

MaxLexLines == 3

\* The lines these texts are made of: the indentation widths 0, 4, 8 and
\* the widths 6 and 2 that are off that step, the operators of two
\* characters, and characters no rule matches.
LexLines ==
    { Ln(0, <<"if", "x", "==", "1", ":">>),
      Ln(4, <<"y", "=", "x", "**", "2">>),
      Ln(6, <<"y", "=", "x", "//", "2">>),
      Ln(2, <<"x", "=", "1">>),
      Ln(0, <<"y", "!", "x", "#c">>),
      Ln(0, <<"x", "|", "y">>),
      Ln(4, <<"print", "(", "x", "??", "y", ")">>),
      Ln(8, <<"x", "<=", "y", "->", "x">>) }

\* The texts, the empty one among them.
LexSources ==
    { [lines |-> <<>>, final_newline |-> FALSE] } \cup
    { [lines |-> l, final_newline |-> nl] :
        l \in UNION { [1..n -> LexLines] : n \in 1..MaxLexLines }, nl \in BOOLEAN }

InitLex ==
    /\ source \in LexSources
    /\ \E made \in {PLYLexer_init(source, <<>>)} :
          /\ lexer = made.lexer
          /\ errors = made.errors
    /\ function_advice_added = FALSE
    /\ last_op = [op |-> "init", arg |-> None]
    /\ last_output = None
    /\ tokens = <<>>
    /\ pc = "scanning"
    /\ has_lexical_errors = <<>>
    /\ parser = None
    /\ defined_functions = {}
    /\ ast = NoAst
    /\ result = None
    /\ symtab = None
    /\ analyzer = None
    /\ rd_parser = None
    /\ generator = None

\* One call of PLYLexer.token(); the caller stops at the first None.
Call_token ==
    /\ pc = "scanning"
    /\ \E r \in {PLYLexer_token(source, lexer, errors)} :
          /\ lexer' = r.lexer
          /\ errors' = r.errors
          /\ tokens' = IF r.tok.type = None THEN tokens ELSE Append(tokens, r.tok)
          /\ pc' = IF r.tok.type = None THEN "scanned" ELSE "scanning"
    /\ UNCHANGED <<stvars, hwvars, function_advice_added, last_op, last_output, source,
                   has_lexical_errors, parser, defined_functions, ast, result>>

\* LexicalAnalyzer().tokenize(source)
Call_tokenize ==
    /\ pc = "scanned"
    /\ analyzer' = LexicalAnalyzer_tokenize(source)
    /\ pc' = "analyzed"
    /\ UNCHANGED <<stvars, generator, rd_parser, ehvars, lexvars, has_lexical_errors, parser,
                   defined_functions, ast, result>>

\* Parser(tokens)
Call_Parser ==
    /\ pc = "analyzed"
    /\ rd_parser' = Parser_init(analyzer.tokens_list)
    /\ pc' = "parsing"
    /\ UNCHANGED <<stvars, generator, analyzer, ehvars, lexvars, has_lexical_errors, parser,
                   defined_functions, ast, result>>

\* Parser.advance(), as long as no call has raised.
Call_advance ==
    /\ pc = "parsing"
    /\ rd_parser.raised = None
    /\ rd_parser' = [Parser_advance(rd_parser) EXCEPT !.last = "advance"]
    /\ UNCHANGED <<stvars, generator, analyzer, ehvars, lexvars, compvars>>

NextLex == Call_token \/ Call_tokenize \/ Call_Parser \/ Call_advance

SpecLex == InitLex /\ [][NextLex]_vars

----------------------------------------------------------------------------
(***************************************************************************)
(* Properties of the tokenizers (SpecLex).                                 *)
(***************************************************************************)

\* The number of entries of a sequence of token types that are t.
CountType(types, t) == Cardinality({i \in DOMAIN types : types[i] = t})

\* The types of the tokens token() has returned, and of the entries
\* t_NEWLINE has put into tokens_queue.
ReturnedTypes == [i \in DOMAIN tokens |-> tokens[i].type]
QueuedTypes == [i \in DOMAIN lexer.tokens_queue |-> lexer.tokens_queue[i][1]]

\* A text has balanced indentation when its first line is not indented and
\* every later line that holds code is indented deeper than the block it
\* follows or to the width of a block still open.
RECURSIVE BalancedFrom(_, _, _)
BalancedFrom(src, i, stack) ==
    IF i > NLines(src) THEN TRUE
    ELSE LET line == src.lines[i]
             open == SelectSeq(stack, LAMBDA w : w <= line.indent)
         IN  IF line.lex = <<>> \/ line.lex[1] = "#c" THEN BalancedFrom(src, i + 1, stack)
             ELSE IF line.indent > stack[Len(stack)]
             THEN BalancedFrom(src, i + 1, Append(stack, line.indent))
             ELSE /\ open[Len(open)] = line.indent
                  /\ BalancedFrom(src, i + 1, open)
BalancedIndentation(src) ==
    NLines(src) = 0 \/ (src.lines[1].indent = 0 /\ BalancedFrom(src, 2, <<0>>))

\* C15: for a source with balanced indentation, once token() has returned
\* None as many INDENT tokens as DEDENT tokens have been produced (returned
\* or queued), and the indent stack is back to [0], also when the text ends
\* inside an indented block.
C15_IndentsMatchDedents ==
    pc = "scanned" /\ BalancedIndentation(source) =>
        /\ CountType(ReturnedTypes \o QueuedTypes, "INDENT") =
              CountType(ReturnedTypes \o QueuedTypes, "DEDENT")
        /\ lexer.indent_stack = <<0>>

\* The indentation stack is strictly increasing from 0 at its bottom.
IndentStackWellFormed ==
    /\ Len(lexer.indent_stack) >= 1
    /\ lexer.indent_stack[1] = 0
    /\ \A i \in 1..(Len(lexer.indent_stack) - 1) :
          lexer.indent_stack[i] < lexer.indent_stack[i + 1]

\* t_NEWLINE records every push as one INDENT entry and every pop as one
\* DEDENT entry of tokens_queue, in the step that changes the stack.
PushesAndPopsQueued ==
    [][pc = "scanning" =>
        LET before == Len(lexer.indent_stack)
            after == Len(lexer'.indent_stack)
            added == SubSeq(lexer'.tokens_queue, Len(lexer.tokens_queue) + 1,
                            Len(lexer'.tokens_queue))
        IN  /\ SubSeq(lexer'.tokens_queue, 1, Len(lexer.tokens_queue)) = lexer.tokens_queue
            /\ Len(added) = IF after > before THEN after - before ELSE before - after
            /\ \A i \in DOMAIN added :
                  added[i][1] = IF after > before THEN "INDENT" ELSE "DEDENT"]_vars

\* C16: every push of a width on the indentation stack puts one INDENT token
\* and every pop one DEDENT token into the stream token() returns, in the
\* order of the pushes and pops, and the stack stays strictly increasing
\* with 0 at its bottom.
C16_IndentTokensInStream ==
    /\ IndentStackWellFormed
    /\ pc = "scanned" =>
          SelectSeq(ReturnedTypes, LAMBDA t : t \in {"INDENT", "DEDENT"}) = QueuedTypes

\* The types of the tokens LexicalAnalyzer.tokenize returned.
TokenListTypes == [i \in DOMAIN analyzer.tokens_list |-> analyzer.tokens_list[i].type]

\* C17: the tokens handed to the parser end with one EOF token, the only
\* one among them, for the empty text too, and the parser's end test
\* (is_at_end, peek) never reads past the end of the list.
C17_StreamEndsWithEOF ==
    /\ pc \in {"analyzed", "parsing"} =>
          /\ TokenListTypes # <<>>
          /\ TokenListTypes[Len(TokenListTypes)] = "eof"
          /\ CountType(TokenListTypes, "eof") = 1
    /\ pc = "parsing" => rd_parser.raised = None

\* No token of type EOF is ever made, by either tokenizer.
NoEOFToken ==
    /\ CountType(ReturnedTypes, "EOF") = 0
    /\ pc \in {"analyzed", "parsing"} => CountType(TokenListTypes, "eof") = 0

\* Whether line i of a text holds code (is neither blank nor a comment).
CodeLine(src, i) == src.lines[i].lex # <<>> /\ src.lines[i].lex[1] # "#c"

\* The established indentation step: the width of the first indented line
\* of code, 0 when no line is indented.
IndentStep(src) ==
    LET indented == {i \in 1..NLines(src) : CodeLine(src, i) /\ src.lines[i].indent > 0}
    IN  IF indented = {} THEN 0
        ELSE src.lines[CHOOSE i \in indented : \A j \in indented : i <= j].indent

\* The widths open before line j, line 1 being taken at width 0 as the
\* tokenizer does: deeper lines push, lines less indented pop.
RECURSIVE OpenWidths(_, _, _, _)
OpenWidths(src, i, stack, j) ==
    IF i >= j THEN stack
    ELSE IF ~CodeLine(src, i) THEN OpenWidths(src, i + 1, stack, j)
    ELSE IF src.lines[i].indent > stack[Len(stack)]
    THEN OpenWidths(src, i + 1, Append(stack, src.lines[i].indent), j)
    ELSE OpenWidths(src, i + 1, SelectSeq(stack, LAMBDA w : w <= src.lines[i].indent), j)

\* The lines after the first whose width is off the step, or that dedent to
\* a width that is not open.
IrregularLines(src) ==
    {i \in 2..NLines(src) :
        /\ CodeLine(src, i)
        /\ LET open == OpenWidths(src, 2, <<0>>, i)
               width == src.lines[i].indent
           IN  \/ IndentStep(src) > 0 /\ width % IndentStep(src) # 0
               \/ /\ width < open[Len(open)]
                  /\ \A k \in DOMAIN open : open[k] # width}

\* C18: every line whose width is off the indentation step, or that dedents
\* to a width not on the indent stack, has a Lexical or Syntactic diagnostic
\* once the text is tokenized.
C18_IrregularIndentReported ==
    pc = "scanned" =>
        \A i \in IrregularLines(source) :
            \E n \in DOMAIN errors :
                errors[n].type \in {"LEXICAL", "SYNTACTIC"} /\ errors[n].line = i

\* A dedent to a width that is not on the stack is reported.
DedentOffStackReported ==
    pc = "scanned" =>
        \A i \in 2..NLines(source) :
            LET open == OpenWidths(source, 2, <<0>>, i)
                width == source.lines[i].indent
            IN  CodeLine(source, i) /\ width < open[Len(open)]
                   /\ (\A k \in DOMAIN open : open[k] # width)
                => \E n \in DOMAIN errors :
                      errors[n].type = "SYNTACTIC" /\ errors[n].line = i
                         /\ errors[n].message[1] = MsgIndent(0)[1]

\* The operators of two characters both tokenizers are to match whole, and
\* those of the hand-written one.
TwoCharOperators == {"==", "!=", "<=", ">=", "->", "//", "**"}
TwoCharOperatorsTS == {"??", "?.", "!."}

\* The offsets in a text at which a lexeme of the set ops begins, with it.
OperatorPositions(src, ops) ==
    {<<LexPos(src, li, k), src.lines[li].lex[k]>> :
        <<li, k>> \in {p \in (1..NLines(src)) \X (1..10) :
                          /\ p[2] <= Len(src.lines[p[1]].lex)
                          /\ src.lines[p[1]].lex[p[2]] \in ops}}

\* The operators of two characters PLYLexer returned whole.
PLYLexerWhole ==
    pc = "scanned" =>
        \A at \in OperatorPositions(source, TwoCharOperators) :
            \E i \in DOMAIN tokens : tokens[i].lexpos = at[1] /\ tokens[i].value = at[2]

\* The same for LexicalAnalyzer, with its three more operators.
LexicalAnalyzerWhole ==
    pc = "analyzed" =>
        \A at \in OperatorPositions(source, TwoCharOperators \cup TwoCharOperatorsTS) :
            \E i \in DOMAIN analyzer.tokens_list :
                /\ analyzer.tokens_list[i].position.index = at[1]
                /\ analyzer.tokens_list[i].value = at[2]

\* C19: where an operator of two characters begins the tokenizer emits one
\* token whose text is that operator, never two tokens of one character.
C19_TwoCharOperatorsWhole == PLYLexerWhole /\ LexicalAnalyzerWhole

\* The operators each tokenizer does match whole.
TwoCharOperatorsMatched ==
    /\ pc = "scanned" =>
          \A at \in OperatorPositions(source, {"==", "!=", "<=", ">=", "->"}) :
              \E i \in DOMAIN tokens : tokens[i].lexpos = at[1] /\ tokens[i].value = at[2]
    /\ pc = "analyzed" =>
          \A at \in OperatorPositions(source, {"!=", "<=", ">=", "->", "??", "?.", "!."}) :
              \E i \in DOMAIN analyzer.tokens_list :
                  /\ analyzer.tokens_list[i].position.index = at[1]
                  /\ analyzer.tokens_list[i].value = at[2]

\* The characters of a text, outside comments, that no rule of PLYLexer
\* matches, each with its line; and the pieces of text no rule of
\* LexicalAnalyzer matches ('?' is one of its delimiters and "??" one of its
\* operators), each with its offset.
UnmatchedPLY(src) ==
    {<<li, c>> \in (1..NLines(src)) \X {"!", "|", "?"} :
        \E k \in DOMAIN src.lines[li].lex :
            /\ src.lines[li].lex[k] \in {"!", "|", "??"}
            /\ \E j \in DOMAIN Chars(src.lines[li].lex[k]) : Chars(src.lines[li].lex[k])[j] = c}
UnmatchedLA(src) == OperatorPositions(src, {"!", "|"})

\* Every such character met by PLYLexer has its LEXICAL diagnostic.
PLYLexerReportsUnmatched ==
    pc = "scanned" =>
        \A at \in UnmatchedPLY(source) :
            \E n \in DOMAIN errors :
                /\ errors[n].type = "LEXICAL"
                /\ errors[n].line = at[1]
                /\ errors[n].message = MsgInvalidChar(at[2])

\* LexicalAnalyzer makes an ERROR token of every such character and goes on.
ErrorTokensMade ==
    pc = "analyzed" =>
        \A at \in UnmatchedLA(source) :
            \E i \in DOMAIN analyzer.tokens_list :
                /\ analyzer.tokens_list[i].type = "error"
                /\ analyzer.tokens_list[i].value = at[2]
                /\ analyzer.tokens_list[i].position.index = at[1]

\* ... and records a diagnostic for it.
LexicalAnalyzerReportsUnmatched ==
    pc = "analyzed" =>
        \A at \in UnmatchedLA(source) :
            \E n \in DOMAIN analyzer.errors : analyzer.errors[n].position.index = at[1]

\* Scanning goes on after such a character: the tokens that follow it are
\* returned, up to the last one of the text.
ScanningGoesOn ==
    pc = "scanned" /\ NLines(source) > 0 =>
        LET last == source.lines[NLines(source)]
        IN  last.lex[Len(last.lex)] \in Identifiers \cup NumberLexemes =>
               /\ tokens # <<>>
               /\ \E i \in DOMAIN tokens :
                     /\ tokens[i].lexpos = LexPos(source, NLines(source), Len(last.lex))
                     /\ tokens[i].type \in {"ID", "NUMBER"}
                     /\ tokens[i].value = last.lex[Len(last.lex)]

\* C20: every character outside a comment that no rule matches gets a
\* recorded lexical diagnostic (and an ERROR token in LexicalAnalyzer),
\* whatever the character and on every line, and scanning goes on to the end
\* of the text.
C20_UnmatchedCharactersReported ==
    /\ PLYLexerReportsUnmatched
    /\ ErrorTokensMade
    /\ LexicalAnalyzerReportsUnmatched
    /\ ScanningGoesOn

----------------------------------------------------------------------------
(***************************************************************************)
(* compile_to_typescript run on texts with brackets (SpecBr).              *)
(***************************************************************************)

\* The lines these texts are made of: brackets that are matched, left open,
\* closed twice, closed on the next line, and a comma before the ")".
BracketLines ==
    { Ln(0, <<"x", "=", "5">>),
      Ln(0, <<"if", "x", ":">>),
      Ln(0, <<"print", "(", "x", ")">>),
      Ln(0, <<"print", "(", "x", ",", ")">>),
      Ln(0, <<"print", "(", "int", "(", "1", ")">>),
      Ln(0, <<"print", "(", "x", ",">>),
      Ln(0, <<"y", ")">>),
      Ln(0, <<"z", "=", "[", "1">>) }

BracketSources ==
    { [lines |-> l, final_newline |-> nl] :
        l \in UNION { [1..n -> BracketLines] : n \in 1..MaxLines }, nl \in BOOLEAN }

InitBr ==
    /\ source \in BracketSources
    /\ errors \in {<<>>, <<StaleError>>}
    /\ function_advice_added = FALSE
    /\ last_op = [op |-> "init", arg |-> None]
    /\ last_output = None
    /\ lexer = None
    /\ tokens = <<>>
    /\ pc = "start"
    /\ has_lexical_errors = <<>>
    /\ parser = None
    /\ defined_functions = {}
    /\ ast = NoAst
    /\ result = Result(NoCode, <<>>)
    /\ symtab = None
    /\ analyzer = None
    /\ rd_parser = None
    /\ generator = None

SpecBr == InitBr /\ [][Next]_vars

\* The lexemes of a text in order, line after line.
RECURSIVE LexemesFrom(_, _)
LexemesFrom(src, i) ==
    IF i > NLines(src) THEN <<>> ELSE src.lines[i].lex \o LexemesFrom(src, i + 1)

\* Whether, reading the lexemes xs from the i-th with depth openers not yet
\* closed, a closer comes with no opener before it, or an opener is still
\* open at the end.
RECURSIVE Mismatched(_, _, _, _, _)
Mismatched(xs, i, depth, opener, closer) ==
    IF i > Len(xs) THEN depth > 0
    ELSE IF xs[i] = opener THEN Mismatched(xs, i + 1, depth + 1, opener, closer)
    ELSE IF xs[i] = closer
    THEN depth = 0 \/ Mismatched(xs, i + 1, depth - 1, opener, closer)
    ELSE Mismatched(xs, i + 1, depth, opener, closer)

\* An argument list that ends with a comma directly before its ")".
DanglingComma(src) ==
    LET xs == LexemesFrom(src, 1)
    IN  \E i \in DOMAIN xs : xs[i] = "," /\ i < Len(xs) /\ xs[i + 1] = ")"

DelimiterFault(src) ==
    \/ Mismatched(LexemesFrom(src, 1), 1, 0, "(", ")")
    \/ Mismatched(LexemesFrom(src, 1), 1, 0, "[", "]")
    \/ DanglingComma(src)

\* The Syntactic diagnostics about brackets and commas, each of which
\* comes with a suggestion.
DelimiterMessages ==
    {"Parentesis sin cerrar", "Corchete sin cerrar",
     "Parentesis de cierre sin coincidencia", "Corchete de cierre sin coincidencia",
     "Coma suelta en argumentos de funcion"}
DelimiterDiagnostics ==
    {n \in DOMAIN errors :
        /\ errors[n].type = "SYNTACTIC"
        /\ errors[n].message[1] \in DelimiterMessages
        /\ errors[n].suggestion[1] # ""}

\* C21: once the text is tokenized and its argument lists are checked, a
\* Syntactic diagnostic about a bracket or a comma is recorded if and only
\* if some bracket of the text is unmatched or some argument list ends with
\* a comma.
C21_DelimiterFaultsReported ==
    pc \in {"registered", "parsed"} => (DelimiterFault(source) <=> DelimiterDiagnostics # {})

\* One direction fails on its own: an opener left open on a line that has
\* a closer after its first opener is not reported ...
UnclosedReported ==
    pc \in {"registered", "parsed"} => (DelimiterFault(source) => DelimiterDiagnostics # {})

\* ... and so does the other: a bracket closed on a later line is reported.
MatchedNotReported ==
    pc \in {"registered", "parsed"} => (~DelimiterFault(source) => DelimiterDiagnostics = {})

----------------------------------------------------------------------------
(***************************************************************************)
(* parser.py: the recursive-descent Parser, on a token list that ends with *)
(* an EOF token.  A token is its type and its value.  A method hands back  *)
(* the parser afterwards (prs), the value it returned, and the exception   *)
(* that escaped from it: "" when none did, and "NoReturn" when the call    *)
(* never returns.                                                          *)
(***************************************************************************)

Tk(type, value) == [type |-> type, value |-> value, position |-> None]

\* A method returning None
NoNode == [node |-> None]

VarDecl(name, initializer) == [node |-> "VarDecl", name |-> name, initializer |-> initializer]
FunDecl(name, params, return_type, body) ==
    [node |-> "FunDecl", name |-> name, params |-> params,
     return_type |-> return_type, body |-> body]
IfStmt(condition, then_branch, else_branch) ==
    [node |-> "IfStmt", condition |-> condition, then_branch |-> then_branch,
     else_branch |-> else_branch]
AssignmentStmt(target, value) == [node |-> "AssignmentStmt", target |-> target, value |-> value]
WhileStmt(condition, body) == [node |-> "WhileStmt", condition |-> condition, body |-> body]
AssignExpr(name, value) == [node |-> "AssignExpr", name |-> name, value |-> value]
GroupingExpr(expression) == [node |-> "GroupingExpr", expression |-> expression]
UnaryExpr(operator, operand) == [node |-> "UnaryExpr", operator |-> operator, operand |-> operand]

Ret(prs, value) == [prs |-> prs, value |-> value, exc |-> "", message |-> ""]
Exc(prs, exc, message) == [prs |-> prs, value |-> NoNode, exc |-> exc, message |-> message]

\* Literal(value) called with one argument: the dataclass Literal of
\* ast_nodes.py has two fields without default, value and type_name.
Literal_OneArgument(prs) ==
    Exc(prs, "TypeError", "Literal.__init__() missing 1 required positional argument: 'type_name'")

\* Parser.previous: self.tokens[self.current - 1], the last token of the
\* list when current is 0.
Parser_previous(prs) ==
    IF prs.current = 0 THEN prs.tokens[Len(prs.tokens)] ELSE prs.tokens[prs.current]

\* Parser.check, check_token and check_keyword
Parser_check(prs, type) ==
    ~Parser_is_at_end(prs).value /\ Parser_peek(prs).value.type = type
Parser_check_token(prs, type, value) ==
    Parser_check(prs, type) /\ Parser_peek(prs).value.value = value
Parser_check_keyword(prs, keyword) == Parser_check_token(prs, "keyword", keyword)

\* Parser.consume
Parser_consume(prs, type, message) ==
    IF Parser_check(prs, type)
    THEN Ret(Parser_advance(prs), Parser_peek(prs).value)
    ELSE Exc(prs, "SyntaxError", message)

\* The loop of Parser.synchronize
RECURSIVE synchronize_loop(_)
synchronize_loop(prs) ==
    IF Parser_is_at_end(prs).value THEN prs
    ELSE IF Parser_previous(prs).type = "newline" THEN prs
    ELSE IF Parser_peek(prs).value.type \in {"indent", "dedent"} THEN prs
    ELSE IF /\ Parser_peek(prs).value.type = "keyword"
            /\ Parser_peek(prs).value.value \in {"def", "class", "if", "while", "for", "return"}
    THEN prs
    ELSE synchronize_loop(Parser_advance(prs))

\* A synchronize that does not take the first token unconditionally.
Parser_synchronize_NoAdvance(prs) == synchronize_loop(prs)

\* A synchronize that does not stop at a keyword starting a statement.
RECURSIVE synchronize_loop_NoKeyword(_)
synchronize_loop_NoKeyword(prs) ==
    IF Parser_is_at_end(prs).value THEN prs
    ELSE IF Parser_previous(prs).type = "newline" THEN prs
    ELSE IF Parser_peek(prs).value.type \in {"indent", "dedent"} THEN prs
    ELSE synchronize_loop_NoKeyword(Parser_advance(prs))
Parser_synchronize_NoKeyword(prs) == synchronize_loop_NoKeyword(Parser_advance(prs))

\* Parser.synchronize
Parser_synchronize(prs) == synchronize_loop(Parser_advance(prs))

\* self.errors.append(...) followed by self.synchronize()
Recover(prs, message) ==
    Parser_synchronize([prs EXCEPT !.errors = Append(@, message)])

RECURSIVE Parser_asignacion(_)
RECURSIVE Parser_unario(_)
RECURSIVE Parser_primario(_)
RECURSIVE Parser_finalizar_llamada(_, _)
RECURSIVE BinaryTail(_, _, _)
RECURSIVE Binary(_, _)
RECURSIVE ArgumentsTail(_, _)

\* Parser.expresion
Parser_expresion(prs) == Parser_asignacion(prs)

\* The operators of the loops of comparacion, suma and mult.
Operators(level) ==
    CASE level = "comparacion" -> {"==", "!="}
      [] level = "suma" -> {"+", "-"}
      [] level = "mult" -> {"*", "/", "//", "%"}

\* The operand of each of them: suma, mult, unario.
Operand(prs, level) ==
    CASE level = "comparacion" -> Binary(prs, "suma")
      [] level = "suma" -> Binary(prs, "mult")
      [] level = "mult" -> Parser_unario(prs)

\* The while loop of comparacion, suma and mult, expr being the operand
\* read so far.
BinaryTail(prs, expr, level) ==
    IF Parser_check(prs, "operator") /\ Parser_peek(prs).value.value \in Operators(level)
    THEN CHOOSE out \in
            { IF r.exc # "" THEN r
              ELSE BinaryTail(r.prs, BinaryExpr(expr, Parser_peek(prs).value.value, r.value), level) :
                r \in {Operand(Parser_advance(prs), level)} } : TRUE
    ELSE Ret(prs, expr)

Binary(prs, level) ==
    CHOOSE out \in
        { IF r.exc # "" THEN r ELSE BinaryTail(r.prs, r.value, level) :
            r \in {Operand(prs, level)} } : TRUE

\* Parser.comparacion, Parser.suma, Parser.mult
Parser_comparacion(prs) == Binary(prs, "comparacion")
Parser_suma(prs) == Binary(prs, "suma")
Parser_mult(prs) == Binary(prs, "mult")

\* Parser.asignacion
Parser_asignacion(prs) ==
    CHOOSE out \in
        { IF r.exc # "" THEN r
          ELSE IF Parser_check_token(r.prs, "operator", "=")
          THEN CHOOSE out2 \in
                  { IF v.exc # "" THEN v
                    ELSE IF r.value.node = "Identifier"
                    THEN Ret(v.prs, AssignExpr(r.value, v.value))
                    ELSE Exc(v.prs, "SyntaxError", "Objetivo de asignacion invalido") :
                      v \in {Parser_asignacion(Parser_advance(r.prs))} } : TRUE
          ELSE r :
            r \in {Parser_comparacion(prs)} } : TRUE

\* Parser.unario
Parser_unario(prs) ==
    IF Parser_check(prs, "operator") /\ Parser_peek(prs).value.value \in {"-", "!"}
    THEN CHOOSE out \in
            { IF r.exc # "" THEN r
              ELSE Ret(r.prs, UnaryExpr(Parser_peek(prs).value.value, r.value)) :
                r \in {Parser_unario(Parser_advance(prs))} } : TRUE
    ELSE Parser_primario(prs)

\* Parser.primario
Parser_primario(prs) ==
    LET next == Parser_advance(prs) IN
    IF Parser_check(prs, "number") \/ Parser_check(prs, "string") THEN Literal_OneArgument(next)
    ELSE IF \E k \in {"True", "False", "None"} : Parser_check_keyword(prs, k)
    THEN Literal_OneArgument(next)
    ELSE IF Parser_check_token(prs, "delimiter", "(")
    THEN CHOOSE out \in
            { IF r.exc # "" THEN r
              ELSE IF Parser_check(r.prs, "delimiter")
              THEN Ret(Parser_advance(r.prs), GroupingExpr(r.value))
              ELSE Exc(r.prs, "SyntaxError", "Se esperaba ')' despues de la expresion") :
                r \in {Parser_expresion(next)} } : TRUE
    ELSE IF Parser_check(prs, "identifier")
    THEN IF Parser_check_token(next, "delimiter", "(")
         THEN Parser_finalizar_llamada(next, Identifier(Parser_peek(prs).value.value))
         ELSE IF Parser_peek(prs).value.value = "f" /\ Parser_check(next, "string")
         THEN Literal_OneArgument(Parser_advance(next))
         ELSE Ret(next, Identifier(Parser_peek(prs).value.value))
    ELSE IF Parser_check(prs, "keyword") /\ Parser_check_token(next, "delimiter", "(")
    THEN Parser_finalizar_llamada(next, Identifier(Parser_peek(prs).value.value))
    ELSE \* a keyword met here has been consumed by match when the error is raised
         Exc(IF Parser_check(prs, "keyword") THEN next ELSE prs,
             "SyntaxError", "Se esperaba una expresion")

\* The while loop of finalizar_llamada, and what follows it.
ArgumentsTail(prs, arguments) ==
    IF Parser_check_token(prs, "delimiter", ",")
    THEN CHOOSE out \in
            { IF r.exc # "" THEN r ELSE ArgumentsTail(r.prs, Append(arguments, r.value)) :
                r \in {Parser_expresion(Parser_advance(prs))} } : TRUE
    ELSE IF Parser_check(prs, "delimiter")
    THEN Ret(Parser_advance(prs), arguments)
    ELSE Exc(prs, "SyntaxError", "Se esperaba ')' despues de los argumentos")

\* Parser.finalizar_llamada
Parser_finalizar_llamada(prs, callee) ==
    IF ~Parser_check(prs, "delimiter")
    THEN Exc(prs, "SyntaxError", "Se esperaba '(' despues del nombre de funcion")
    ELSE CHOOSE out \in
            { IF r.exc # "" THEN r ELSE Ret(r.prs, CallExpr(callee, r.value)) :
                r \in { IF Parser_check_token(Parser_advance(prs), "delimiter", ")")
                        THEN ArgumentsTail(Parser_advance(prs), <<>>)
                        ELSE CHOOSE first \in
                                { IF a.exc # "" THEN a ELSE ArgumentsTail(a.prs, <<a.value>>) :
                                    a \in {Parser_expresion(Parser_advance(prs))} } : TRUE } } : TRUE

\* The result r of a call handed on to what follows it, unless an exception
\* escaped from the call.
Then(r, F(_)) == CHOOSE out \in { IF x.exc # "" THEN x ELSE F(x) : x \in {r} } : TRUE

\* match_token(DELIMITER, ":") followed by consume(TYPE_HINT, ...), the
\* optional type of a parameter.
ParamType(prs) ==
    IF Parser_check_token(prs, "delimiter", ":")
    THEN Parser_consume(Parser_advance(prs), "type_hint", "Se esperaba un tipo despues de ':'")
    ELSE Ret(prs, NoNode)

\* The while loop of Parser.params
RECURSIVE ParamsTail(_, _)
ParamsTail(prs, parametros) ==
    IF ~Parser_check_token(prs, "delimiter", ",") THEN Ret(prs, parametros)
    ELSE IF Parser_check_token(Parser_advance(prs), "delimiter", ")")
    THEN Exc(Parser_advance(prs), "SyntaxError", "Coma extra antes del cierre de parentesis")
    ELSE Then(Parser_consume(Parser_advance(prs), "identifier",
                             "Se esperaba nombre de parametro despues de ','"),
              LAMBDA n : Then(ParamType(n.prs),
              LAMBDA t : ParamsTail(t.prs, Append(parametros, n.value.value))))

\* Parser.params
Parser_params(prs) ==
    Then(Parser_consume(prs, "identifier", "Se esperaba nombre de parametro"),
         LAMBDA n : Then(ParamType(n.prs),
         LAMBDA t : ParamsTail(t.prs, <<n.value.value>>)))

\* Parser.tipo
Parser_tipo(prs) ==
    Then(Parser_consume(prs, "type_hint", "Se esperaba un tipo valido"),
         LAMBDA t : Ret(t.prs, t.value.value))

\* while self.check(NEWLINE) or self.check(COMMENT): self.advance()
RECURSIVE SkipNewlinesAndComments(_)
SkipNewlinesAndComments(prs) ==
    IF Parser_check(prs, "newline") \/ Parser_check(prs, "comment")
    THEN SkipNewlinesAndComments(Parser_advance(prs))
    ELSE prs

\* while self.check(NEWLINE): self.advance()
RECURSIVE SkipNewlines(_)
SkipNewlines(prs) ==
    IF Parser_check(prs, "newline") THEN SkipNewlines(Parser_advance(prs)) ELSE prs

RECURSIVE Parser_declaracion(_)
RECURSIVE Parser_bloque(_)
RECURSIVE bloque_loop(_, _)

\* Parser.declaracion_var
Parser_declaracion_var(prs) ==
    Then(Parser_consume(prs, "identifier", "Se esperaba un identificador"),
         LAMBDA n : Then(Parser_consume(n.prs, "operator",
                                        "Se esperaba '=' despues del identificador"),
         LAMBDA o : Then(Parser_expresion(o.prs),
         LAMBDA v : Ret(v.prs, VarDecl(n.value.value, v.value)))))

\* The try block of Parser.declaracion_fun
declaracion_fun_try(prs) ==
    Then(Parser_consume(prs, "identifier", "Se esperaba nombre de funcion"),
    LAMBDA n : Then(Parser_consume(n.prs, "delimiter",
                                   "Se esperaba '(' despues del nombre de funcion"),
    LAMBDA o : Then(IF Parser_check_token(o.prs, "delimiter", ")")
                    THEN Ret(o.prs, <<>>) ELSE Parser_params(o.prs),
    LAMBDA ps : Then(Parser_consume(ps.prs, "delimiter",
                                    "Se esperaba ')' despues de los parametros"),
    LAMBDA c : Then(IF Parser_check_token(c.prs, "operator", "->")
                    THEN Parser_tipo(Parser_advance(c.prs)) ELSE Ret(c.prs, None),
    LAMBDA rt : Then(Parser_consume(rt.prs, "delimiter",
                         "Se esperaba ':' despues de la declaracion de funcion"),
    LAMBDA colon : Then(Parser_bloque(SkipNewlinesAndComments(colon.prs)),
    LAMBDA body : Ret(body.prs, FunDecl(n.value.value, ps.value, rt.value, body.value)))))))))

\* Parser.declaracion_fun
Parser_declaracion_fun(prs) ==
    CHOOSE out \in
        { IF r.exc = "SyntaxError" THEN Ret(Recover(r.prs, r.message), NoNode) ELSE r :
            r \in {declaracion_fun_try(prs)} } : TRUE

\* Parser.return_statement
Parser_return_statement(prs) ==
    IF ~Parser_check_token(prs, "delimiter", ";") /\ ~Parser_is_at_end(prs).value
    THEN Then(Parser_expresion(prs), LAMBDA v : Ret(v.prs, ReturnStmt(v.value)))
    ELSE Ret(prs, ReturnStmt(NoNode))

\* The else part of Parser.if_statement
ElseBranch(prs) ==
    IF ~Parser_check_keyword(prs, "else") THEN Ret(prs, None)
    ELSE IF ~Parser_check_token(Parser_advance(prs), "delimiter", ":")
    THEN Exc(Parser_advance(prs), "SyntaxError", "Falta ':' despues de 'else'")
    ELSE Parser_bloque(Parser_advance(Parser_advance(prs)))

\* Parser.if_statement
Parser_if_statement(prs) ==
    Then(Parser_expresion(prs),
    LAMBDA condicion :
        IF ~Parser_check_token(condicion.prs, "delimiter", ":")
        THEN Exc(condicion.prs, "SyntaxError", "Falta ':' despues de la condicion if")
        ELSE Then(Parser_bloque(Parser_advance(condicion.prs)),
             LAMBDA then_branch : Then(ElseBranch(then_branch.prs),
             LAMBDA else_branch :
                 Ret(else_branch.prs,
                     IfStmt(condicion.value, then_branch.value, else_branch.value)))))

\* Parser.expresion_statement
Parser_expresion_statement(prs) ==
    IF Parser_check(prs, "comment") \/ Parser_check(prs, "newline")
    THEN Ret(Parser_advance(prs), NoNode)
    ELSE CHOOSE out \in
            { IF r.exc = "NoReturn" THEN r
              ELSE IF r.exc # ""
              THEN Ret(Recover(r.prs, "Error en expresion: " \o r.message), NoNode)
              ELSE Ret(IF Parser_check(r.prs, "newline") THEN Parser_advance(r.prs) ELSE r.prs,
                       ExpressionStmt(r.value)) :
                r \in {Parser_expresion(prs)} } : TRUE

\* Parser.declaracion
Parser_declaracion(prs) ==
    IF Parser_check(prs, "comment") THEN Ret(Parser_advance(prs), NoNode)
    ELSE IF Parser_check_keyword(prs, "def") THEN Parser_declaracion_fun(Parser_advance(prs))
    ELSE IF Parser_check_keyword(prs, "if") THEN Parser_if_statement(Parser_advance(prs))
    ELSE IF Parser_check_keyword(prs, "return") THEN Parser_return_statement(Parser_advance(prs))
    ELSE IF Parser_check(prs, "identifier")
            /\ Parser_check_token(Parser_advance(prs), "operator", "=")
    THEN Parser_declaracion_var(prs)
    ELSE Parser_expresion_statement(prs)

\* One declaracion() of a statement loop with its except clause: the parser
\* and the list of declarations afterwards.
LoopDeclaration(prs, declaraciones) ==
    CHOOSE out \in
        { IF r.exc = "SyntaxError" THEN Ret(Recover(r.prs, r.message), declaraciones)
          ELSE IF r.exc # "" THEN r
          ELSE Ret(r.prs, IF r.value = NoNode THEN declaraciones
                          ELSE Append(declaraciones, r.value)) :
            r \in {Parser_declaracion(prs)} } : TRUE

\* A turn of a statement loop that left the position where it was is
\* followed by the same turn for ever: the loop does not end.
Turn(prs, r, Loop(_, _)) ==
    IF r.exc # "" THEN r
    ELSE IF r.prs.current = prs.current THEN Exc(r.prs, "NoReturn", "")
    ELSE Loop(r.prs, r.value)

\* The while loop of Parser.bloque, and the DEDENT after it.
bloque_loop(prs, declaraciones) ==
    IF ~Parser_is_at_end(prs).value /\ ~Parser_check(prs, "dedent")
    THEN IF Parser_check(prs, "newline") THEN bloque_loop(Parser_advance(prs), declaraciones)
         ELSE CHOOSE out \in
                 { Turn(prs, r, bloque_loop) : r \in {LoopDeclaration(prs, declaraciones)} } : TRUE
    ELSE Ret(IF Parser_check(prs, "dedent") THEN Parser_advance(prs) ELSE prs, declaraciones)

\* Parser.bloque
Parser_bloque(prs) ==
    IF ~Parser_check(prs, "indent")
    THEN Exc(prs, "SyntaxError", "Se esperaba indentacion despues de los dos puntos")
    ELSE bloque_loop(Parser_advance(prs), <<>>)

\* The while loop of Parser.programa
RECURSIVE programa_loop(_, _)
programa_loop(prs, declaraciones) ==
    IF Parser_is_at_end(prs).value \/ Parser_is_at_end(SkipNewlines(prs)).value
    THEN Ret(SkipNewlines(prs), declaraciones)
    ELSE CHOOSE out \in
            { Turn(prs, r, programa_loop) :
                r \in {LoopDeclaration(SkipNewlines(prs), declaraciones)} } : TRUE

\* Parser.programa
Parser_programa(prs) ==
    Then(programa_loop(prs, <<>>), LAMBDA r : Ret(r.prs, Program(r.value)))

\* Parser.parse
Parser_parse(prs) ==
    CHOOSE out \in
        { IF r.exc \in {"", "NoReturn"} THEN r
          ELSE Ret([r.prs EXCEPT !.errors = Append(@, r.message)], NoNode) :
            r \in {Parser_programa(prs)} } : TRUE

(***************************************************************************)
(* The recursive-descent Parser driven on its own: Parser(tokens) on a     *)
(* token list that ends with EOF, then parse(), or advance() and           *)
(* synchronize() from every position.                                      *)
(***************************************************************************)
MaxChunks == 3

NL == Tk("newline", "\n")
INDENT == Tk("indent", "")
DEDENT == Tk("dedent", "")
EOF == Tk("eof", "")
Colon == Tk("delimiter", ":")
Name(n) == Tk("identifier", n)
Kw(k) == Tk("keyword", k)

DefHeader == <<Kw("def"), Name("f"), Tk("delimiter", "("), Tk("delimiter", ")"), Colon>>
IfHeader == <<Kw("if"), Name("x"), Colon>>
ElseHeader == <<Kw("else"), Colon>>
XLine == <<Name("x"), NL>>
YLine == <<Name("y"), NL>>
SimpleBlock == <<INDENT>> \o XLine \o <<DEDENT>>
ElseBlock == <<INDENT>> \o YLine \o <<DEDENT>>
NestedBlock ==
    <<INDENT>> \o IfHeader \o <<INDENT>> \o YLine \o <<DEDENT>> \o XLine \o <<DEDENT>>

\* The pieces token lists are put together from.
Chunks ==
    { DefHeader \o <<NL>>, IfHeader \o <<NL>>, IfHeader, ElseHeader \o <<NL>>,
      IfHeader \o SimpleBlock, ElseHeader \o ElseBlock,
      SimpleBlock, ElseBlock, XLine, <<INDENT>> \o XLine, <<DEDENT>>, NestedBlock,
      <<Name("x"), Tk("operator", "="), Name("y"), NL>>,
      <<Tk("delimiter", ")"), NL>>,
      <<Tk("number", "1"), NL>>,
      <<Name("x"), Tk("operator", "+"), Kw("return"), Name("y"), NL>> }

RECURSIVE Concat(_)
Concat(chunks) == IF chunks = <<>> THEN <<>> ELSE Head(chunks) \o Concat(Tail(chunks))

TokenLists ==
    { Concat(cs) \o <<EOF>> : cs \in UNION { [1..n -> Chunks] : n \in 0..MaxChunks } }

InitRD ==
    /\ rd_parser \in { Parser_init(toks) : toks \in TokenLists }
    /\ generator = None
    /\ pc = "parsing"
    /\ analyzer = None
    /\ source = None
    /\ errors = <<>>
    /\ function_advice_added = FALSE
    /\ last_op = [op |-> "init", arg |-> None]
    /\ last_output = None
    /\ lexer = None
    /\ tokens = <<>>
    /\ has_lexical_errors = <<>>
    /\ parser = None
    /\ defined_functions = {}
    /\ ast = NoAst
    /\ result = Result(NoCode, <<>>)
    /\ symtab = None

\* Parser.synchronize, called at any position.
Call_synchronize ==
    /\ pc = "parsing"
    /\ rd_parser.raised = None
    /\ rd_parser.last # "synchronize"
    /\ rd_parser' = [Parser_synchronize(rd_parser) EXCEPT !.last = "synchronize"]
    /\ UNCHANGED <<stvars, generator, analyzer, ehvars, lexvars, compvars>>

\* Parser.parse on a fresh parser.  A statement loop that does not end
\* leaves the call running for ever.
Call_parse ==
    /\ pc = "parsing"
    /\ rd_parser.last = "init"
    /\ \E r \in {Parser_parse(rd_parser)} :
        /\ rd_parser' = [r.prs EXCEPT !.last = "parse"]
        /\ ast' = r.value
        /\ pc' = IF r.exc = "NoReturn" THEN "looping" ELSE "done"
    /\ UNCHANGED <<stvars, generator, analyzer, ehvars, source, lexer, tokens,
                   has_lexical_errors, parser, defined_functions, result>>

NextRD == Call_advance \/ Call_synchronize \/ Call_parse

SpecRD == InitRD /\ [][NextRD]_vars

(***************************************************************************)
(* Properties of the recursive-descent Parser                              *)
(***************************************************************************)
Parsed == pc = "done" /\ rd_parser.last = "parse"

XStmt == ExpressionStmt(Identifier("x"))
YStmt == ExpressionStmt(Identifier("y"))

\* Token lists of a block-opening header, its NEWLINE, INDENT, statements and
\* the matching DEDENT, each with the tree the grammar gives it.
HeaderNewlineBlock ==
    { [tokens |-> DefHeader \o <<NL>> \o SimpleBlock \o <<EOF>>,
       tree |-> Program(<<FunDecl("f", <<>>, None, <<XStmt>>)>>)],
      [tokens |-> IfHeader \o <<NL>> \o SimpleBlock \o <<EOF>>,
       tree |-> Program(<<IfStmt(Identifier("x"), <<XStmt>>, None)>>)],
      [tokens |-> IfHeader \o SimpleBlock \o ElseHeader \o <<NL>> \o ElseBlock \o <<EOF>>,
       tree |-> Program(<<IfStmt(Identifier("x"), <<XStmt>>, <<YStmt>>)>>)] }

\* Token lists of a header whose NEWLINE is followed by a statement and no
\* INDENT.
HeaderNewlineNoIndent ==
    { DefHeader \o <<NL>> \o XLine \o <<EOF>>,
      IfHeader \o <<NL>> \o XLine \o <<EOF>>,
      IfHeader \o SimpleBlock \o ElseHeader \o <<NL>> \o XLine \o <<EOF>> }

ExpectedIndentation == "Se esperaba indentacion despues de los dos puntos"

InSeq(x, xs) == \E i \in 1..Len(xs) : xs[i] = x

\* C22: def, if and else headers followed by NEWLINE, INDENT, statements and
\* DEDENT are accepted with no syntax error and the block holds exactly those
\* statements; a header whose NEWLINE is not followed by INDENT yields the
\* 'expected indentation' syntax error.
C22_BlocksAfterHeaderNewline ==
    Parsed =>
        /\ \A h \in HeaderNewlineBlock :
            rd_parser.tokens = h.tokens => rd_parser.errors = <<>> /\ ast = h.tree
        /\ rd_parser.tokens \in HeaderNewlineNoIndent
            => InSeq(ExpectedIndentation, rd_parser.errors)

\* The def header: declaracion_fun skips the NEWLINE before the block.
DefBlockAccepted ==
    Parsed /\ rd_parser.tokens = DefHeader \o <<NL>> \o SimpleBlock \o <<EOF>>
        => rd_parser.errors = <<>> /\ ast = Program(<<FunDecl("f", <<>>, None, <<XStmt>>)>>)

\* Every header whose NEWLINE is not followed by INDENT is refused with the
\* 'expected indentation' error.
MissingIndentReported ==
    Parsed /\ rd_parser.tokens \in HeaderNewlineNoIndent
        => InSeq(ExpectedIndentation, rd_parser.errors)

\* An if header followed by NEWLINE and a well-formed block is refused:
\* if_statement calls bloque at the NEWLINE.
IfBlockRefused ==
    Parsed /\ rd_parser.tokens = IfHeader \o <<NL>> \o SimpleBlock \o <<EOF>>
        => rd_parser.errors # <<>> /\ rd_parser.errors[1] = ExpectedIndentation

\* A nested block consumes its own DEDENT: the statement after it belongs to
\* the enclosing block.
NestedBlockOwnDedent ==
    Parsed /\ rd_parser.tokens = DefHeader \o <<NL>> \o NestedBlock \o <<EOF>>
        => /\ rd_parser.errors = <<>>
           /\ ast = Program(<<FunDecl("f", <<>>, None,
                        <<IfStmt(Identifier("x"), <<YStmt>>, None), XStmt>>)>>)

\* Reached: each kind of header has been parsed with its NEWLINE and block,
\* and with its NEWLINE and no INDENT.
C22_Witness_IfNewlineBlock ==
    /\ Parsed
    /\ rd_parser.tokens = IfHeader \o <<NL>> \o SimpleBlock \o <<EOF>>
    /\ rd_parser.errors # <<>>

StatementKeywords == {"def", "class", "if", "while", "for", "return"}

\* A position (tokens consumed so far) at which recovery may stop.
ResumptionPoint(toks, c) ==
    \/ toks[c + 1].type = "eof"
    \/ c > 0 /\ toks[c].type = "newline"
    \/ toks[c + 1].type \in {"indent", "dedent"}
    \/ toks[c + 1].type = "keyword" /\ toks[c + 1].value \in StatementKeywords

\* C26: synchronize consumes at least one token unless the parser is at end
\* of input; when it returns the parser is at end of input, or the last
\* consumed token is a NEWLINE, or the current token is INDENT, DEDENT or one
\* of def/class/if/while/for/return; and it stops at the first such point
\* after the token it consumed first.
C26_SynchronizeStopsAtFirstResumptionPoint ==
    [][rd_parser'.last = "synchronize" /\ rd_parser.last # "synchronize" =>
        LET toks == rd_parser.tokens
            before == rd_parser.current
            after == rd_parser'.current
        IN  /\ rd_parser'.tokens = toks /\ rd_parser'.errors = rd_parser.errors
            /\ toks[before + 1].type = "eof" => after = before
            /\ toks[before + 1].type # "eof" =>
                /\ after > before
                /\ ResumptionPoint(toks, after)
                /\ \A c \in (before + 1)..(after - 1) : ~ResumptionPoint(toks, c)]_vars

\* Reached: synchronize has discarded tokens in the middle of a line and
\* stopped in front of a statement keyword.
C26_Witness ==
    /\ pc = "parsing"
    /\ rd_parser.last = "synchronize"
    /\ rd_parser.current > 1
    /\ rd_parser.tokens[rd_parser.current].type = "operator"
    /\ rd_parser.tokens[rd_parser.current + 1] = Kw("return")

\* After a grammar violation parse goes on from the point synchronize
\* stopped at: the statement after the faulty line is in the tree.
ParsingResumesAfterError ==
    Parsed /\ rd_parser.tokens = <<Tk("delimiter", ")"), NL>> \o XLine \o <<EOF>>
        => Len(rd_parser.errors) = 1 /\ ast = Program(<<XStmt>>)

\* C29: parse returns for every token list that ends with EOF: no turn of
\* the statement loops of programa and bloque leaves the position where it
\* was and goes on.
C29_ParseReturns == rd_parser.last = "parse" => pc = "done"

\* Reached: parse has returned on a list with a stray INDENT, an unmatched
\* ')' and a keyword in expression position, with each of them reported.
C29_Witness ==
    /\ Parsed
    /\ rd_parser.tokens = <<INDENT>> \o XLine \o <<Tk("delimiter", ")"), NL>>
                            \o <<Name("x"), Tk("operator", "+"), Kw("return"), Name("y"), NL>>
                            \o <<EOF>>
    /\ Len(rd_parser.errors) >= 3
    /\ rd_parser.tokens[rd_parser.current + 1] = EOF

\* When parse returns every token up to EOF has been consumed.
ParseConsumesAll == Parsed /\ ast # NoNode => rd_parser.tokens[rd_parser.current + 1] = EOF

(***************************************************************************)
(* Two calls of compile_to_typescript on two threads.  Each call has its   *)
(* own source, lexer, parser and position; error_handler is the one        *)
(* module-level instance of error_handler.py, which both calls clear,      *)
(* write and read.  Each call takes the steps of the pipeline above, and   *)
(* the steps of the two calls interleave.                                  *)
(***************************************************************************)
Calls == {1, 2}

ThreadLines ==
    { Ln(0, <<"x", "=", "5">>),
      Ln(0, <<"s", "=", "USTR">>),
      Ln(0, <<"print", "(", "x", ",", ")">>),
      Ln(0, <<"if", "x", ":">>) }

ThreadSources == { [lines |-> <<l>>, final_newline |-> TRUE] : l \in ThreadLines }

\* The state of one call before its first step.
NewCall(src) ==
    [source |-> src, pc |-> "start", has_lexical_errors |-> <<>>, parser |-> None,
     ast |-> NoAst, result |-> Result(NoCode, <<>>)]

\* The steps of one call: what it does to its own state and to the handler.
Step(call, handler) == [call |-> call, errors |-> handler]

\* main.py lines 18-32
TokenizeStep(call) ==
    CHOOSE out \in
        { Step([call EXCEPT !.pc = "tokenized",
                            !.has_lexical_errors = get_errors_by_type(run.errors, "LEXICAL")],
               run.errors) :
            run \in { TokenLoop(call.source, made.lexer, made.errors, <<>>) :
                        made \in {PLYLexer_init(call.source, <<>>)} } } : TRUE

\* main.py lines 34-93
RegisterStep(call, handler) ==
    CHOOSE out \in
        { Step([call EXCEPT !.pc = "registered",
                            !.parser = [reg.parser EXCEPT !.indent_level =
                                            IF HasDefSpace(call.source) THEN 4 ELSE @]],
               remove_function_errors(TrailingCommas(call.source, 1, handler),
                                      reg.defined_functions)) :
            reg \in {PreRegister(call.source, 1, {}, PLYParser_init)} } : TRUE

TakesControlPath(call) ==
    has_control_structures(call.source) /\ call.has_lexical_errors = <<>>

\* main.py lines 95-98
ControlPathStep(call, handler) ==
    Step([call EXCEPT !.pc = "done",
                      !.result = Result(Code(convert_control_structures(call.source)), <<>>)],
         handler)

\* main.py lines 100-106
ParseStep(call, handler) ==
    CHOOSE out \in
        { Step([call EXCEPT !.pc = "parsed", !.parser = parsed.parser, !.ast = parsed.ast],
               new_lexer.errors) :
            new_lexer \in {PLYLexer_init(call.source, handler)},
            parsed \in { PLYParser_parse(call.parser, call.source, l.lexer) :
                            l \in {PLYLexer_init(call.source, handler)} } } : TRUE

\* main.py lines 109-126
ReturnStep(call, handler) ==
    LET typescript_code == convert_simple_expressions(call.source)
        truthy == Len(typescript_code) > 1
                     \/ (Len(typescript_code) = 1
                           /\ (typescript_code[1].indent > 0 \/ typescript_code[1].text # <<>>))
    IN  IF has_errors(handler)
        THEN Step([call EXCEPT !.pc = "done",
                               !.result = Result(NoCode, <<format_errors(handler)>>)],
                  SortErrors(handler))
        ELSE Step([call EXCEPT !.pc = "done",
                     !.result =
                        IF call.ast.node # None
                        THEN Result(Code(TypeScriptGenerator_generate(call.ast)), <<>>)
                        ELSE IF ~has_control_structures(call.source) /\ truthy
                        THEN Result(Code(typescript_code), <<>>)
                        ELSE Result(NoCode, <<format_errors(handler)>>)],
                  handler)

\* compile_to_typescript run from start to end with the handler to itself.
RECURSIVE RunAlone(_, _)
RunAlone(call, handler) ==
    IF call.pc = "done" THEN call.result
    ELSE CHOOSE out \in
        { RunAlone(s.call, s.errors) :
            s \in { CASE call.pc = "start" -> TokenizeStep(call)
                      [] call.pc = "tokenized" -> RegisterStep(call, handler)
                      [] call.pc = "registered" /\ TakesControlPath(call)
                            -> ControlPathStep(call, handler)
                      [] call.pc = "registered" /\ ~TakesControlPath(call)
                            -> ParseStep(call, handler)
                      [] call.pc = "parsed" -> ReturnStep(call, handler) } } : TRUE

compile_to_typescript(src) == RunAlone(NewCall(src), <<>>)

\* The calls are kept in pc (a call's whole state, for each thread); the
\* sources of the two calls differ.
InitThreads ==
    /\ pc \in { [c \in Calls |-> NewCall(IF c = 1 THEN s[1] ELSE s[2])] :
                    s \in { t \in ThreadSources \X ThreadSources : t[1] # t[2] } }
    /\ errors = <<>>
    /\ function_advice_added = FALSE
    /\ last_op = [op |-> "init", arg |-> None]
    /\ last_output = None
    /\ source = None
    /\ lexer = None
    /\ tokens = <<>>
    /\ has_lexical_errors = <<>>
    /\ parser = None
    /\ defined_functions = {}
    /\ ast = NoAst
    /\ result = Result(NoCode, <<>>)
    /\ symtab = None
    /\ analyzer = None
    /\ rd_parser = None
    /\ generator = None

Took(c, s, op) ==
    /\ pc' = [pc EXCEPT ![c] = s.call]
    /\ errors' = s.errors
    /\ last_op' = [op |-> op, arg |-> c]
    /\ UNCHANGED <<stvars, hwvars, last_output, lexvars, has_lexical_errors, parser,
                   defined_functions, ast, result>>

Thread_Tokenize(c) ==
    /\ pc[c].pc = "start"
    /\ function_advice_added' = FALSE
    /\ Took(c, TokenizeStep(pc[c]), "Tokenize")

Thread_Register(c) ==
    /\ pc[c].pc = "tokenized"
    /\ UNCHANGED function_advice_added
    /\ Took(c, RegisterStep(pc[c], errors), "Register")

Thread_ControlPath(c) ==
    /\ pc[c].pc = "registered" /\ TakesControlPath(pc[c])
    /\ UNCHANGED function_advice_added
    /\ Took(c, ControlPathStep(pc[c], errors), "ControlPath")

Thread_Parse(c) ==
    /\ pc[c].pc = "registered" /\ ~TakesControlPath(pc[c])
    /\ UNCHANGED function_advice_added
    /\ Took(c, ParseStep(pc[c], errors), "Parse")

Thread_Return(c) ==
    /\ pc[c].pc = "parsed"
    /\ function_advice_added' =
            (function_advice_added \/ (has_errors(errors) /\ NeedsFunctionAdvice(errors)))
    /\ Took(c, ReturnStep(pc[c], errors), "Return")

NextThreads ==
    \E c \in Calls :
        \/ Thread_Tokenize(c)
        \/ Thread_Register(c)
        \/ Thread_ControlPath(c)
        \/ Thread_Parse(c)
        \/ Thread_Return(c)

SpecThreads == InitThreads /\ [][NextThreads]_vars

\* C23: each of two interleaved calls returns exactly the diagnostics (and
\* the code) that compiling its own source alone returns: nothing of the
\* other call's, and nothing of its own erased by the other call's reset.
C23_CallsDoNotInterfere ==
    \A c \in Calls :
        pc[c].pc = "done" => pc[c].result = compile_to_typescript(pc[c].source)

\* A call that runs all its steps with no step of the other call in between
\* returns what it returns alone.
UninterruptedCallUnaffected ==
    \A c \in Calls :
        (pc[c].pc = "done" /\ \A d \in Calls \ {c} : pc[d].pc = "start")
            => pc[c].result = compile_to_typescript(pc[c].source)

\* A diagnostic of the other call's source is never returned by a call whose
\* own source has none.
NoForeignDiagnostics ==
    \A c \in Calls :
        pc[c].pc = "done" /\ compile_to_typescript(pc[c].source).errors = <<>>
            => pc[c].result.errors = <<>>

\* The diagnostics of a call's own source are never lost.
OwnDiagnosticsKept ==
    \A c \in Calls :
        pc[c].pc = "done" /\ compile_to_typescript(pc[c].source).errors # <<>>
            => pc[c].result.errors # <<>>

(***************************************************************************)
(* Properties of the tip about defining functions                          *)
(***************************************************************************)
\* C24: the tip is appended to the formatted diagnostics exactly when a
\* recorded Semantic diagnostic mentions 'funcion' and the tip has not been
\* added since the last clear_errors: at most once per compilation, however
\* often the diagnostics are formatted.
C24_FunctionAdviceOncePerCompilation ==
    [][last_op'.op = "format_errors" =>
        (last_output'.advice <=> (NeedsFunctionAdvice(errors) /\ ~function_advice_added))]_vars

\* Every formatted text carries the tip exactly when a recorded Semantic
\* diagnostic mentions 'funcion'.
AdviceIffFuncionDiagnostic ==
    [][last_op'.op = "format_errors" =>
        (last_output'.advice <=> NeedsFunctionAdvice(errors))]_vars

\* function_advice_added tells whether the tip was added since the last
\* clear_errors.
AdviceFlagKept ==
    [][/\ last_op'.op = "format_errors" => function_advice_added' =
                                (function_advice_added \/ last_output'.advice)
       /\ last_op'.op = "clear_errors" => ~function_advice_added'
       /\ last_op'.op \notin {"format_errors", "clear_errors"} => UNCHANGED function_advice_added]_vars

\* The tip is not added a second time between two clear_errors.
AdviceNotRepeated ==
    [][last_op'.op = "format_errors" /\ function_advice_added => ~last_output'.advice]_vars

\* main (main.py lines 498-522) prints every returned diagnostic text, and
\* after them its own tips: the number of times the tip about defining
\* functions is printed for what compile_to_typescript returned.
main_function_tips(res) ==
    LET printed(out) == IF out.advice THEN 1 ELSE 0
        undefined(out) == \E i \in DOMAIN out.text : out.text[i].message[1] = MsgFuncUndef("")[1]
    IN  IF res.errors = <<>> THEN 0
        ELSE printed(res.errors[1])
                + (IF undefined(res.errors[1]) THEN 1 ELSE 0)

\* main prints the tip at most once.
MainPrintsAdviceOnce == pc = "done" => main_function_tips(result) <= 1

(***************************************************************************)
(* Recovery after an unterminated string                                   *)
(***************************************************************************)
\* The lexemes of a line that are tokens of their own.
TokenLexemes(line) == { k \in DOMAIN line.lex : line.lex[k] \notin {"USTR", "#c"} }

\* Every token lexeme of line i has been returned by the lexer.
LineEmitted(src, toks, i) ==
    \A k \in TokenLexemes(src.lines[i]) :
        \E j \in DOMAIN toks : toks[j].lexpos = LexPos(src, i, k)

\* No lexeme of line i has been returned.
LineSkipped(src, toks, i) ==
    \A k \in TokenLexemes(src.lines[i]) :
        \A j \in DOMAIN toks : toks[j].lexpos # LexPos(src, i, k)

UnterminatedLines(src) == { n \in DOMAIN src.lines : HasLexeme(src.lines[n], "USTR") }

\* C25: after an unterminated string on line n scanning resumes at the start
\* of line n+1: every token of line n+1 and of the later lines is emitted.
C25_ScanningResumesAtNextLine ==
    pc = "tokenized" =>
        \A n \in UnterminatedLines(source) :
            \A i \in DOMAIN source.lines : i > n => LineEmitted(source, tokens, i)

\* The line after the first unterminated string is passed over whole.
LineAfterUnterminatedSkipped ==
    pc = "tokenized" =>
        \A n \in UnterminatedLines(source) :
            (n + 1 \in DOMAIN source.lines /\ \A m \in UnterminatedLines(source) : n <= m)
                => LineSkipped(source, tokens, n + 1)

\* Every line that does not follow an unterminated string is emitted whole.
OtherLinesEmitted ==
    pc = "tokenized" =>
        \A i \in DOMAIN source.lines :
            (i - 1) \notin UnterminatedLines(source) => LineEmitted(source, tokens, i)

(***************************************************************************)
(* The TypeScriptGenerator driven on its own: generate(ast) for the trees  *)
(* the grammar actions of ply_parser.py build.                             *)
(***************************************************************************)
MaxRangeArgs == 4
MaxNesting == 2

Number(v) == Literal(v, <<"number">>)

\* PLYParser.p_list_literal: the list literal of the items.  The element
\* types are collected in a set; order is the order in which the set is
\* iterated when the names are joined.
p_list_literal(items, order) ==
    LET element_types == { items[i].type_name[1] :
                             i \in { j \in DOMAIN items : items[j].node = "Literal" } }
        named == SelectSeq(order, LAMBDA t : t \in element_types)
    IN  ListLiteral(items,
                IF element_types = {} THEN <<"list">>
                ELSE <<"list<">> \o JoinBar(named) \o <<">">>)

\* The orders a set of type names can be iterated in.
SetOrders == { <<"number", "string", "boolean">>, <<"boolean", "string", "number">> }

ListLiterals ==
    { p_list_literal(items, order) :
        items \in { <<Number("1"), Number("2")>>,
                    <<Number("1"), Literal("a", <<"string">>)>>,
                    <<Literal("True", <<"boolean">>)>>,
                    <<Identifier("y")>> },
        order \in SetOrders }

GenExprs ==
    { Identifier("y"), Number("1"), Literal("a", <<"string">>), Literal("True", <<"boolean">>),
      CallExpr(Identifier("f"), <<Identifier("y")>>),
      BinaryExpr(Identifier("y"), "+", Number("1")) } \cup ListLiterals

Assignments == { AssignmentStmt(Identifier("x"), e) : e \in GenExprs }

SimpleStmts ==
    Assignments \cup { ExpressionStmt(Identifier("y")), ReturnStmt(Identifier("x")) }

\* range(...) with n arguments
RangeCall(n) == CallExpr(Identifier("range"), [i \in 1..n |-> Number("1")])

\* The block statements around a body.
BlocksAround(body) ==
    { FunctionDef("f", <<>>, "void", body),
      IfStmt(Identifier("y"), body, <<>>),
      IfStmt(Identifier("y"), body, <<ExpressionStmt(Identifier("y"))>>),
      WhileStmt(Identifier("y"), body),
      ForStmt(Identifier("i"), Identifier("y"), body) }
    \cup { ForStmt(Identifier("i"), RangeCall(n), body) : n \in 0..MaxRangeArgs }

\* Block statements nested up to the given depth.
RECURSIVE Blocks(_)
Blocks(depth) ==
    LET bodies == { <<>>, <<ExpressionStmt(Identifier("y"))>> }
                    \cup (IF depth > 1
                          THEN { <<b, ExpressionStmt(Identifier("y"))>> : b \in Blocks(depth - 1) }
                          ELSE {})
    IN UNION { BlocksAround(body) : body \in bodies }

GenTrees ==
    { Program(<<s>>) : s \in SimpleStmts \cup Blocks(MaxNesting) }

InitGen ==
    /\ ast \in GenTrees
    /\ generator = TypeScriptGenerator_init
    /\ pc = "start"
    /\ errors = <<>>
    /\ function_advice_added = FALSE
    /\ last_op = [op |-> "init", arg |-> None]
    /\ last_output = None
    /\ source = None
    /\ lexer = None
    /\ tokens = <<>>
    /\ has_lexical_errors = <<>>
    /\ parser = None
    /\ defined_functions = {}
    /\ result = Result(NoCode, <<>>)
    /\ symtab = None
    /\ analyzer = None
    /\ rd_parser = None

\* TypeScriptGenerator.generate(ast): the output is reset and the program
\* visited.
Call_generate ==
    /\ pc = "start"
    /\ generator' = TypeScriptGenerator_visit_statements(
                        [generator EXCEPT !.output = <<>>], ast.statements)
    /\ result' = Result(Code(generator'.output), <<>>)
    /\ pc' = "generated"
    /\ UNCHANGED <<stvars, analyzer, rd_parser, ehvars, lexvars, has_lexical_errors, parser,
                   defined_functions, ast>>

NextGen == Call_generate

SpecGen == InitGen /\ [][NextGen]_vars

(***************************************************************************)
(* Properties of the TypeScriptGenerator                                   *)
(***************************************************************************)
Generated == pc = "generated"

OpensBrace(line) == line.text # <<>> /\ line.text[Len(line.text)] = "{"
ClosesBrace(line) == line.text # <<>> /\ line.text[1] = "}"

\* Every '}' line closes the block opened last, at the indentation of its
\* header, and no block is left open; open holds the indentations of the
\* headers of the blocks that are open.
RECURSIVE WellBraced(_, _)
WellBraced(lines, open) ==
    IF lines = <<>> THEN open = <<>>
    ELSE LET l == Head(lines)
         IN  IF ClosesBrace(l)
             THEN /\ open # <<>>
                  /\ l.indent = Head(open)
                  /\ WellBraced(Tail(lines), IF OpensBrace(l) THEN open ELSE Tail(open))
             ELSE WellBraced(Tail(lines), IF OpensBrace(l) THEN <<l.indent>> \o open ELSE open)

IsBlock(node) == node.node \in {"FunctionDef", "IfStmt", "WhileStmt", "ForStmt"}

\* The number of block statements among the statements and inside them.
RECURSIVE BlockCount(_)
BlockCount(stmts) ==
    IF stmts = <<>> THEN 0
    ELSE LET s == Head(stmts)
             inside == CASE s.node = "IfStmt" -> BlockCount(s.then_branch) + BlockCount(s.else_branch)
                         [] s.node \in {"FunctionDef", "WhileStmt", "ForStmt"} -> BlockCount(s.body)
                         [] OTHER -> 0
         IN  (IF IsBlock(s) THEN 1 ELSE 0) + inside + BlockCount(Tail(stmts))

CountLines(lines, P(_)) == Cardinality({ i \in DOMAIN lines : P(lines[i]) })

IsHeader(line) == OpensBrace(line) /\ ~ClosesBrace(line)
IsCloser(line) == line.text = <<"}">>

CounterBalanced ==
    /\ generator.indentation = 0
    /\ \A i \in DOMAIN generator.levels : generator.levels[i] >= 0

BracesMatch ==
    /\ WellBraced(generator.output, <<>>)
    /\ CountLines(generator.output, IsHeader) = BlockCount(ast.statements)
    /\ CountLines(generator.output, IsCloser) = BlockCount(ast.statements)

\* C27: generate keeps the indentation counter non-negative and returns it
\* to 0, and every block statement emits one header line ending in '{' and
\* one matching '}' line at the header's indentation, for loops over
\* range(...) with any number of arguments included.
C27_IndentationAndBracesBalanced == Generated => CounterBalanced /\ BracesMatch

\* The counter on its own.
IndentationCounterBalanced == Generated => CounterBalanced

\* A for loop over range(...)
RECURSIVE HasRangeLoop(_, _)
HasRangeLoop(stmts, counts) ==
    \E i \in DOMAIN stmts :
        LET s == stmts[i]
        IN  \/ /\ s.node = "ForStmt" /\ s.iterable.node = "CallExpr"
               /\ s.iterable.callee.name = "range"
               /\ Len(s.iterable.arguments) \in counts
            \/ s.node = "IfStmt" /\ (HasRangeLoop(s.then_branch, counts)
                                        \/ HasRangeLoop(s.else_branch, counts))
            \/ s.node \in {"FunctionDef", "WhileStmt", "ForStmt"} /\ HasRangeLoop(s.body, counts)

\* With one, two or three range arguments, and for every other block
\* statement, the braces match.
BracesMatchUpToThreeArguments ==
    Generated /\ ~HasRangeLoop(ast.statements, {0} \cup 4..(MaxRangeArgs + 1)) => BracesMatch

\* A for loop over range() or over range(a, b, c, d) has no header line.
RangeLoopWithoutHeader ==
    Generated /\ ast.statements[1].node = "ForStmt"
              /\ HasRangeLoop(<<ast.statements[1]>>, {0} \cup 4..(MaxRangeArgs + 1))
              /\ BlockCount(ast.statements[1].body) = 0
        => /\ CountLines(generator.output, IsHeader) = 0
           /\ CountLines(generator.output, IsCloser) = 1

(***************************************************************************)
(* The type annotation of an assignment                                    *)
(***************************************************************************)
\* The annotation of an emitted declaration: what stands between ':' and '='.
Annotation(line) ==
    IF line.text[3] # ":" THEN <<>>
    ELSE LET eq == CHOOSE k \in DOMAIN line.text :
                        line.text[k] = "=" /\ \A j \in 1..(k - 1) : line.text[j] # "="
         IN  SubSeq(line.text, 4, eq - 1)

\* The literal types of the items of a list literal.
ElementTypes(value) ==
    { value.items[i].type_name[1] :
        i \in { j \in DOMAIN value.items : value.items[j].node = "Literal" } }

\* The annotations the value of an assignment can be given: the literal's
\* type, T[] for a list of one element type T, a union of the element types
\* in [] for a list of several, any for every other value.
InferredAnnotations(value) ==
    IF value.node # "Literal" THEN {<<"any">>}
    ELSE IF "items" \notin DOMAIN value THEN {value.type_name}
    ELSE IF Cardinality(ElementTypes(value)) = 0 THEN {<<"any", "[]">>}
    ELSE IF Cardinality(ElementTypes(value)) = 1
    THEN {<<t, "[]">> : t \in ElementTypes(value)}
    ELSE { <<"(", t[1], "|", t[2], ")", "[]">> :
             t \in { u \in ElementTypes(value) \X ElementTypes(value) : u[1] # u[2] } }

AssignmentGenerated == Generated /\ ast.statements[1].node = "AssignmentStmt"

\* C28: the declaration emitted for an assignment carries the type inferred
\* from the value: number, string or boolean for those literals, T[] for a
\* list literal of elements of one literal type T, a union element type for
\* a list of several, and any when the value is not a literal.
C28_AssignmentTypeInferred ==
    AssignmentGenerated =>
        Annotation(generator.output[1]) \in InferredAnnotations(ast.statements[1].value)

\* Number, string and boolean literals are annotated with their type.
ScalarLiteralAnnotated ==
    AssignmentGenerated /\ ast.statements[1].value.node = "Literal"
                        /\ "items" \notin DOMAIN ast.statements[1].value
        => Annotation(generator.output[1]) = ast.statements[1].value.type_name

\* A value that is not a literal gets no annotation at all.
NonLiteralNotAnnotated ==
    AssignmentGenerated /\ ast.statements[1].value.node # "Literal"
        => Annotation(generator.output[1]) = <<>>

\* The element type of a list literal is always emitted as any.
ListElementTypeAny ==
    AssignmentGenerated /\ ast.statements[1].value.node = "Literal"
                        /\ "items" \in DOMAIN ast.statements[1].value
        => Annotation(generator.output[1]) \in
                { <<"any", "[]">>, <<"(", "any", "|", "any", ")", "[]">> }

(***************************************************************************)
(* Braces of convert_control_structures                                    *)
(***************************************************************************)
\* Every '}' closes a block that is open, and none is left open; depth is
\* the number of open blocks.
RECURSIVE BracesBalanced(_, _)
BracesBalanced(lines, depth) ==
    IF lines = <<>> THEN depth = 0
    ELSE LET l == Head(lines)
             closed == IF ClosesBrace(l) THEN depth - 1 ELSE depth
         IN  /\ closed >= 0
             /\ BracesBalanced(Tail(lines), IF OpensBrace(l) THEN closed + 1 ELSE closed)

ControlPathTaken ==
    pc = "done" /\ has_control_structures(source) /\ has_lexical_errors = <<>>

\* C30: the text compile_to_typescript returns through
\* convert_control_structures has balanced block braces: every '{' that
\* opens a block is closed by one later '}', and no '}' is emitted when no
\* block is open.
C30_ControlStructureBracesBalanced ==
    ControlPathTaken => BracesBalanced(result.code.lines, 0)

HasElse(src) == \E i \in DOMAIN src.lines : src.lines[i].lex = <<"else", ":">>

\* Without an else line the braces are balanced, nested blocks included.
BracesBalancedWithoutElse ==
    ControlPathTaken /\ ~HasElse(source) => BracesBalanced(result.code.lines, 0)

\* if, a body, else at the indentation of the if: the block of the if is
\* closed twice, by a '}' line and by the '} else {' line after it.
IfClosedTwiceBeforeElse ==
    ControlPathTaken /\ Len(source.lines) = 3
        /\ source.lines[1] = Ln(0, <<"if", "x", ":">>)
        /\ source.lines[2].indent = 4
        /\ source.lines[3] = Ln(0, <<"else", ":">>)
        => /\ Len(result.code.lines) = 5
           /\ result.code.lines[3].text = <<"}">>
           /\ result.code.lines[4].text = <<"}", "else", "{">>

====
